---- MODULE Spec2Model ----
(***************************************************************************)
(* Quest / inventory state machine and turn pipeline of rpg_story.         *)
(*                                                                         *)
(* A GameState is a record; Python dicts are functions whose DOMAIN is the *)
(* set of keys present (a key mapped to 0 differs from an absent key).     *)
(* Dict iteration order is modelled by the fixed order KeyOrder.           *)
(* Player-visible texts are records [kind, parts, who, where, words]: the  *)
(* kind names the template, parts/who/where are the values interpolated    *)
(* into it and words are the item / NPC names occurring in free text, so   *)
(* that two texts are equal exactly when the rendered strings are.         *)
(***************************************************************************)
EXTENDS Integers, Sequences, FiniteSets, TLC

\* ------------------------------------------------------------------ bounds
MaxCount == 2
MaxTurns == 2

\* the turns of a session that are followed guard by guard
MaxGuardedTurns == 1

\* the movement calls that are followed in one world
MaxMoveCalls == 1

\* the decide_npc_move calls that are followed for one world
MaxDecisions == 2

\* the turns of a session in which every operation is called
MaxSessionTurns == 1

\* the longest session id
MaxIdLen == 3

\* ------------------------------------------------------------- vocabulary
ItemKeys == {"ration", "rations", "token"}
KeyOrder == <<"ration", "rations", "token">>
NpcIds == {"npc_a", "npc_b"}
LocationIds == {"town", "forest"}
Statuses == {"available", "active", "completed", "failed"}
MainId == "main_final"
SideId == "side_ration"
LegacyId == "side_help"
UnknownId == "side_random"
NoValue == "none"

\* ------------------------------------------------------------ dict helpers
EmptyMap == [k \in {} |-> 0]

Get(m, k) == IF k \in DOMAIN m THEN m[k] ELSE 0

Min(a, b) == IF a <= b THEN a ELSE b

Max(a, b) == IF a >= b THEN a ELSE b

SetMax(S) == CHOOSE x \in S : \A y \in S : y <= x

RECURSIVE SumOver(_, _)
SumOver(m, S) ==
  IF S = {} THEN 0
  ELSE LET k == CHOOSE x \in S : TRUE IN Get(m, k) + SumOver(m, S \ {k})

Keys(m) == SelectSeq(KeyOrder, LAMBDA k : k \in DOMAIN m)

Put(m, k, v) == [x \in DOMAIN m \cup {k} |-> IF x = k THEN v ELSE m[x]]

Pop(m, k) == [x \in DOMAIN m \ {k} |-> m[x]]

\* ------------------------------------------------------------------ texts
Text(kind, words) ==
  [kind |-> kind, parts |-> <<>>, who |-> "", where |-> "", words |-> words]

EmptyText == Text("", {})

\* an optional text that is not given (None)
NoText == Text("none", {})

IsEmptyText(t) == t.kind = ""

\* a name occurring inside another name of the vocabulary, as Python's `in`
IsSubstring(a, b) == a = b \/ (a = "ration" /\ b = "rations")

WordsOf(t) ==
  (t.words \cup {t.parts[i][1] : i \in DOMAIN t.parts} \cup {t.who, t.where}) \ {""}

Mentions(t, name) == name # "" /\ \E w \in WordsOf(t) : IsSubstring(name, w)

\* --------------------------------------------------------------- item names
CanonicalItemKey(item) == IF item = "rations" THEN "ration" ELSE item

InventoryAmountForItem(inventory, item) ==
  SumOver(inventory,
          {k \in DOMAIN inventory : CanonicalItemKey(k) = CanonicalItemKey(item)})

MatchingItemKeys(target_item, pool) ==
  SelectSeq(Keys(pool),
            LAMBDA k : pool[k] > 0
                       /\ CanonicalItemKey(k) = CanonicalItemKey(target_item))

NormalizeStatus(status) ==
  IF status \in Statuses THEN status
  ELSE IF status \in {"done", "finished", "complete"} THEN "completed"
  ELSE "active"

NormalizeItemMap(value) == [k \in {x \in DOMAIN value : value[x] > 0} |-> value[k]]

ResolveRequiredItem(required, item) ==
  IF DOMAIN required = {} THEN item
  ELSE IF item \in DOMAIN required THEN item
  ELSE LET same == SelectSeq(Keys(required),
                     LAMBDA k : CanonicalItemKey(k) = CanonicalItemKey(item))
       IN IF Len(same) > 0 THEN same[1] ELSE NoValue

CoerceUnclamped(value, required) ==
  LET keep == {k \in DOMAIN value : ResolveRequiredItem(required, k) # NoValue}
      dom == {ResolveRequiredItem(required, k) : k \in keep}
  IN [i \in dom |->
        SetMax({value[k] : k \in {x \in keep : ResolveRequiredItem(required, x) = i}})]

CoerceCollectedMap(value, required) ==
  LET keep == {k \in DOMAIN value : ResolveRequiredItem(required, k) # NoValue}
      dom == {ResolveRequiredItem(required, k) : k \in keep}
      clamp(i, n) == IF i \in DOMAIN required THEN Min(n, required[i]) ELSE n
  IN [i \in dom |->
        SetMax({clamp(i, value[k]) :
                  k \in {x \in keep : ResolveRequiredItem(required, x) = i}})]

\* ------------------------------------------------------------------ world
\* A world as _ensure_story_structures leaves it: two locations, hence two
\* side quests, each with required and reward items, and a main quest whose
\* required items are the aggregated side rewards.
SideIdB == "side_supply"

WorldQuestIds == {MainId, SideId, SideIdB}

WorldSideIds == {SideId, SideIdB}

AggregateSideRewards(sides) ==
  [k \in UNION {DOMAIN sides[q].reward_items : q \in DOMAIN sides} |->
     SetMax({Get(sides[q].reward_items, k) : q \in DOMAIN sides})]

WorldSideQuests ==
  [q \in WorldSideIds |->
     IF q = SideId
     THEN [title |-> Text("side_a_title", {"ration"}),
           objective |-> Text("side_a_objective", {"ration"}),
           description |-> Text("side_a_description", {}),
           giver_npc_id |-> "npc_a", suggested_location |-> "forest",
           required_items |-> [k \in {"ration"} |-> 2],
           reward_items |-> [k \in {"token"} |-> 1]]
     ELSE [title |-> Text("side_b_title", {"rations"}),
           objective |-> Text("side_b_objective", {"rations"}),
           description |-> Text("side_b_description", {"Bo"}),
           giver_npc_id |-> "npc_b", suggested_location |-> "town",
           required_items |-> [k \in {"rations"} |-> 1],
           reward_items |-> [k \in {"token"} |-> 1]]]

WorldQuestDefinitions ==
  [q \in WorldQuestIds |->
     IF q = MainId
     THEN [title |-> Text("main_title", {}),
           category |-> "main",
           objective |-> Text("main_objective", {"token"}),
           description |-> Text("main_description", {}),
           giver_npc_id |-> "npc_a", suggested_location |-> "town",
           required_items |-> AggregateSideRewards(WorldSideQuests),
           reward_items |-> EmptyMap]
     ELSE [title |-> WorldSideQuests[q].title,
           category |-> "side",
           objective |-> WorldSideQuests[q].objective,
           description |-> WorldSideQuests[q].description,
           giver_npc_id |-> WorldSideQuests[q].giver_npc_id,
           suggested_location |-> WorldSideQuests[q].suggested_location,
           required_items |-> WorldSideQuests[q].required_items,
           reward_items |-> WorldSideQuests[q].reward_items]]

NpcName(npc) == IF npc = "npc_a" THEN "Mila" ELSE IF npc = "npc_b" THEN "Bo" ELSE ""

NpcStart == [n \in NpcIds |-> IF n = "npc_a" THEN "forest" ELSE "town"]

StartingLocation == "town"

FallbackTitle(quest_id) == Text("fallback_title", {quest_id})

PassedFlag(quest_id) == <<"main_trial_passed", quest_id>>

FailedFlag(quest_id) == <<"main_trial_failed", quest_id>>

FlagOn(flags, f) == f \in DOMAIN flags /\ flags[f]

\* ------------------------------------------------------ initial game state
BuildInitialQuestJournal ==
  [q \in WorldQuestIds |->
     [title |-> WorldQuestDefinitions[q].title,
      category |-> WorldQuestDefinitions[q].category,
      status |-> IF q = MainId THEN "active" ELSE "available",
      objective |-> WorldQuestDefinitions[q].objective,
      guidance |-> WorldQuestDefinitions[q].description,
      giver_npc_id |-> WorldQuestDefinitions[q].giver_npc_id,
      required_items |-> WorldQuestDefinitions[q].required_items,
      collected_items |-> [k \in DOMAIN WorldQuestDefinitions[q].required_items |-> 0],
      reward_items |-> WorldQuestDefinitions[q].reward_items]]

InitializeGameState ==
  [player_location |-> StartingLocation,
   npc_locations |-> NpcStart,
   flags |-> [f \in {} |-> FALSE],
   quests |-> [q \in WorldQuestIds |-> BuildInitialQuestJournal[q].status],
   quest_journal |-> BuildInitialQuestJournal,
   main_quest_id |-> MainId,
   inventory |-> EmptyMap,
   last_turn_id |-> 0]

\* ------------------------------------------------------------ hint texts
AllMet(required, collected) ==
  \A k \in DOMAIN required : Get(collected, k) >= required[k]

MissingItemsHint(required, collected) ==
  LET missing == SelectSeq(Keys(required), LAMBDA k : Get(collected, k) < required[k])
  IN IF Len(missing) = 0 THEN Text("ready_for_delivery", {})
     ELSE [Text("missing_items", {}) EXCEPT
             !.parts = [i \in DOMAIN missing |->
                          <<missing[i], Get(collected, missing[i]), required[missing[i]], 0>>]]

DeliveryHint(required, delivered, inventory) ==
  [Text("delivery_progress", {}) EXCEPT
     !.parts = [i \in DOMAIN Keys(required) |->
                  <<Keys(required)[i], Get(delivered, Keys(required)[i]),
                    required[Keys(required)[i]],
                    InventoryAmountForItem(inventory, Keys(required)[i])>>]]

TrialHint(required, collected, finale_npc_name, finale_loc_name) ==
  IF AllMet(required, collected)
  THEN [Text("main_items_ready", {}) EXCEPT !.who = finale_npc_name, !.where = finale_loc_name]
  ELSE [Text("main_preparation", {}) EXCEPT
          !.parts = [i \in DOMAIN Keys(required) |->
                       <<Keys(required)[i], Get(collected, Keys(required)[i]),
                         required[Keys(required)[i]], 0>>]]

MainTrialTargetFromData(data, raw) ==
  LET npc_id == raw.giver_npc_id
      mapped == IF npc_id # NoValue /\ npc_id \in DOMAIN data.npc_locations
                THEN data.npc_locations[npc_id] ELSE NoValue
      suggested == WorldQuestDefinitions[MainId].suggested_location
  IN <<npc_id,
       IF mapped # NoValue THEN mapped
       ELSE IF suggested # NoValue THEN suggested
       ELSE data.player_location>>

WorldNpcName(npc_id) ==
  IF npc_id = NoValue THEN ""
  ELSE IF npc_id \in NpcIds THEN NpcName(npc_id) ELSE npc_id

WorldLocationName(location_id) == IF location_id = NoValue THEN "" ELSE location_id

FindVerbs == {"find", "collect", "gather", "obtain", "fetch"}

NormalizeQuestTextConsistency(entry) ==
  LET required == NormalizeItemMap(entry.required_items)
      names == Keys(required)
      mentioned(t) == \E i \in DOMAIN names : Mentions(t, names[i])
      objective ==
        IF ~IsEmptyText(entry.objective) /\ ~mentioned(entry.objective)
        THEN [entry.objective EXCEPT
                !.parts = @ \o [i \in DOMAIN names |-> <<names[i], required[names[i]], 0, 0>>]]
        ELSE entry.objective
      title ==
        IF IsEmptyText(entry.title) \/ mentioned(entry.title) THEN entry.title
        ELSE IF entry.title.words \cap FindVerbs # {}
        THEN Text("collect_item", {"collect", names[1]})
        ELSE entry.title
  IN IF DOMAIN required = {} THEN entry
     ELSE [entry EXCEPT !.objective = objective, !.title = title]

\* ------------------------------------- _sync_quest_journal_with_inventory
KeepEntryDefinition(quest_id, raw) == raw

ApplyWorldDefinition(quest_id, raw) ==
  IF quest_id \notin WorldQuestIds THEN raw
  ELSE LET world_def == WorldQuestDefinitions[quest_id] IN
       [raw EXCEPT
          !.title = IF ~IsEmptyText(world_def.title) THEN world_def.title
                    ELSE IF ~IsEmptyText(raw.title) THEN raw.title
                    ELSE FallbackTitle(quest_id),
          !.category = world_def.category,
          !.objective = IF ~IsEmptyText(world_def.objective) THEN world_def.objective
                        ELSE raw.objective,
          !.giver_npc_id = world_def.giver_npc_id,
          !.required_items = NormalizeItemMap(world_def.required_items),
          !.reward_items = NormalizeItemMap(world_def.reward_items)]

SyncMainEntry(data, quest_id, raw, status) ==
  LET required == raw.required_items
      collected == [k \in DOMAIN raw.collected_items \cup DOMAIN required |->
                      IF k \in DOMAIN required
                      THEN Min(required[k], InventoryAmountForItem(data.inventory, k))
                      ELSE raw.collected_items[k]]
      complete == AllMet(required, collected)
      passed_flag == FlagOn(data.flags, PassedFlag(quest_id))
      failed_flag == FlagOn(data.flags, FailedFlag(quest_id))
      target == MainTrialTargetFromData(data, raw)
      withc == [raw EXCEPT !.collected_items = collected]
  IN IF passed_flag /\ complete
     THEN [withc EXCEPT !.status = "completed",
                        !.guidance = IF IsEmptyText(@) THEN Text("final_trial_passed", {}) ELSE @]
     ELSE IF failed_flag
     THEN [withc EXCEPT !.status = "failed", !.guidance = Text("final_trial_failed", {})]
     ELSE [withc EXCEPT !.status = "active",
                        !.guidance = TrialHint(required, collected,
                                               WorldNpcName(target[1]),
                                               WorldLocationName(target[2]))]

SyncSideEntry(data, raw, status) ==
  LET required == raw.required_items
      complete == AllMet(required, raw.collected_items)
      hint == DeliveryHint(required, raw.collected_items, data.inventory)
      reopened == status = "completed" /\ ~complete
      status1 == IF reopened THEN "active" ELSE status
      raw1 == IF reopened THEN [raw EXCEPT !.guidance = hint] ELSE raw
  IN IF status1 = "available"
     THEN [raw1 EXCEPT !.status = "active", !.guidance = hint]
     ELSE IF status1 = "active" /\ complete
     THEN [raw1 EXCEPT !.status = "active", !.guidance = Text("requirements_met", {})]
     ELSE IF status1 = "active"
     THEN [raw1 EXCEPT !.status = "active", !.guidance = hint]
     ELSE [raw1 EXCEPT !.status = status1]

\* The steps of one pass of the loop, last step first: each takes the entry
\* as the steps before it leave it.
SyncEntry(data, quest_id, entry) ==
  LET Titled(raw) ==
        [raw EXCEPT !.title = IF IsEmptyText(@) THEN FallbackTitle(quest_id) ELSE @]
      Progressed(raw, status, required) ==
        IF DOMAIN required # {} /\ status # "failed"
        THEN IF raw.category = "main"
             THEN SyncMainEntry(data, quest_id, raw, status)
             ELSE SyncSideEntry(data, raw, status)
        ELSE [raw EXCEPT !.status = status]
      Coerced(raw, status, required) ==
        Progressed([raw EXCEPT !.collected_items = CoerceCollectedMap(@, required)],
                   status, required)
      Normalized(raw) ==
        Coerced(NormalizeQuestTextConsistency(
                  [raw EXCEPT !.required_items = NormalizeItemMap(@)]),
                NormalizeStatus(raw.status), NormalizeItemMap(raw.required_items))
  IN Titled(Normalized(ApplyWorldDefinition(quest_id, entry)))

SyncQuestJournalWithInventory(data) ==
  LET Stored(journal) ==
        [data EXCEPT
           !.quest_journal = journal,
           !.quests = [q \in DOMAIN data.quests \cup DOMAIN journal |->
                         IF q \in DOMAIN journal THEN journal[q].status
                         ELSE data.quests[q]]]
  IN Stored([q \in DOMAIN data.quest_journal |->
               SyncEntry(data, q, data.quest_journal[q])])

\* GameState.model_validate: the references a state must satisfy
ValidState(data) ==
  /\ data.player_location \in LocationIds
  /\ (data.main_quest_id # NoValue => data.main_quest_id \in DOMAIN data.quest_journal)
  /\ DOMAIN data.npc_locations = NpcIds
  /\ \A n \in NpcIds : data.npc_locations[n] \in LocationIds

sync_quest_journal(state) == SyncQuestJournalWithInventory(state)

\* ------------------------------------------------------ deliver_items_to_npc
QuestIdOrder == <<"main_final", "side_help", "side_random", "side_ration", "side_supply">>

\* quests sorted by (side before main, quest id)
QuestsInOrder(journal) ==
  SelectSeq(QuestIdOrder, LAMBDA q : q \in DOMAIN journal /\ journal[q].category = "side")
  \o SelectSeq(QuestIdOrder, LAMBDA q : q \in DOMAIN journal /\ journal[q].category # "side")

QuestSuggestedLocation(quest_id) ==
  IF quest_id \in WorldQuestIds THEN WorldQuestDefinitions[quest_id].suggested_location
  ELSE NoValue

AllowDeliveryFallback(quest_id, entry, npc_id, location_id) ==
  LET suggested == QuestSuggestedLocation(quest_id)
      npc_name == IF npc_id \in NpcIds THEN NpcName(npc_id) ELSE ""
  IN IF entry.category # "side" THEN FALSE
     ELSE IF suggested # NoValue /\ suggested # location_id THEN FALSE
     ELSE IF \/ Mentions(entry.title, npc_name)
             \/ Mentions(entry.objective, npc_name)
             \/ Mentions(entry.guidance, npc_name)
     THEN TRUE
     ELSE IF suggested # NoValue THEN suggested = location_id ELSE TRUE

\* the loop over the inventory keys matching one required item
RECURSIVE TransferKeys(_, _, _, _, _)
TransferKeys(matched, i, still_need, remaining, delivered) ==
  IF i > Len(matched) \/ still_need <= 0
  THEN [still_need |-> still_need, remaining |-> remaining, delivered |-> delivered]
  ELSE LET inv_key == matched[i]
           available == Get(remaining, inv_key)
           move_amount == Min(still_need, available)
       IN IF available <= 0 \/ move_amount <= 0
          THEN TransferKeys(matched, i + 1, still_need, remaining, delivered)
          ELSE TransferKeys(matched, i + 1, still_need - move_amount,
                            IF available - move_amount <= 0 THEN Pop(remaining, inv_key)
                            ELSE Put(remaining, inv_key, available - move_amount),
                            Put(delivered, inv_key, Get(delivered, inv_key) + move_amount))

\* the loop over the required items of one quest
RECURSIVE TransferRequired(_, _, _, _, _, _)
TransferRequired(items, i, required, collected, remaining, delivered) ==
  IF i > Len(items)
  THEN [collected |-> collected, remaining |-> remaining, delivered |-> delivered]
  ELSE LET item == items[i]
           have_delivered == Get(collected, item)
           still_need == Max(0, required[item] - have_delivered)
           matched == MatchingItemKeys(item, remaining)
           r == TransferKeys(matched, 1, still_need, remaining, delivered)
           transferred == still_need - r.still_need
       IN IF still_need <= 0 \/ Len(matched) = 0
          THEN TransferRequired(items, i + 1, required, collected, remaining, delivered)
          ELSE TransferRequired(items, i + 1, required,
                                IF transferred > 0
                                THEN Put(collected, item, have_delivered + transferred)
                                ELSE collected,
                                r.remaining, r.delivered)

RECURSIVE GrantRewards(_, _, _, _)
GrantRewards(items, i, reward_items, m) ==
  IF i > Len(items) THEN m
  ELSE GrantRewards(items, i + 1, reward_items,
                    Put(m, items[i], Get(m, items[i]) + reward_items[items[i]]))

DeliverEligible(quest_id, entry, npc_id, location_id) ==
  /\ NormalizeStatus(entry.status) \notin {"completed", "failed"}
  /\ entry.category # "main"
  /\ ~(/\ entry.giver_npc_id # NoValue
       /\ entry.giver_npc_id # npc_id
       /\ ~AllowDeliveryFallback(quest_id, entry, npc_id, location_id))
  /\ DOMAIN NormalizeItemMap(entry.required_items) # {}

\* One pass of the loop over the quests; t is what the loop over the required
\* items of the quest leaves.
DeliverToQuest(acc, quest_id, npc_id, location_id) ==
  LET entry == acc.journal[quest_id]
      required == NormalizeItemMap(entry.required_items)
      Transferred(t) ==
        LET made_progress == t.delivered # acc.delivered
            complete == AllMet(required, t.collected)
            rewarded == complete /\ entry.category = "side"
            done == [entry EXCEPT
                       !.collected_items = t.collected,
                       !.status = IF complete THEN "completed" ELSE "active",
                       !.guidance = IF complete THEN Text("side_completed", {})
                                    ELSE MissingItemsHint(required, t.collected)]
        IN IF ~made_progress THEN acc
           ELSE [acc EXCEPT
                   !.remaining = t.remaining,
                   !.delivered = t.delivered,
                   !.journal = [@ EXCEPT ![quest_id] = done],
                   !.quests = Put(@, quest_id, done.status),
                   !.inventory =
                      IF rewarded
                      THEN GrantRewards(Keys(entry.reward_items), 1, entry.reward_items, @)
                      ELSE @,
                   !.rewards =
                      IF rewarded
                      THEN GrantRewards(Keys(entry.reward_items), 1, entry.reward_items, @)
                      ELSE @,
                   !.notices = IF complete THEN Append(@, quest_id) ELSE @]
  IN IF ~DeliverEligible(quest_id, entry, npc_id, location_id) THEN acc
     ELSE Transferred(TransferRequired(Keys(required), 1, required, entry.collected_items,
                                       acc.remaining, acc.delivered))

RECURSIVE DeliverLoop(_, _, _, _, _)
DeliverLoop(acc, order, i, npc_id, location_id) ==
  IF i > Len(order) THEN acc
  ELSE DeliverLoop(DeliverToQuest(acc, order[i], npc_id, location_id),
                   order, i + 1, npc_id, location_id)

KeepDelivered(items, i, delivered, inventory) == inventory

RECURSIVE ConsumeDelivered(_, _, _, _)
ConsumeDelivered(items, i, delivered, inventory) ==
  IF i > Len(items) THEN inventory
  ELSE LET left == Get(inventory, items[i]) - delivered[items[i]]
       IN ConsumeDelivered(items, i + 1, delivered,
                           IF left <= 0 THEN Pop(inventory, items[i])
                           ELSE Put(inventory, items[i], left))

NoDelivery(state) ==
  [state |-> state, notices |-> <<>>, rewards |-> EmptyMap, delivered |-> EmptyMap]

deliver_items_to_npc(state, npc_id, location_id, handover) ==
  LET normalized_handover == [k \in {x \in DOMAIN handover : handover[x] > 0} |-> handover[k]]
      remaining == [k \in {x \in DOMAIN normalized_handover : Get(state.inventory, x) > 0} |->
                      Min(state.inventory[k], normalized_handover[k])]
      Delivered(acc) ==
        [state |-> SyncQuestJournalWithInventory(
                     [state EXCEPT
                        !.inventory = ConsumeDelivered(Keys(acc.delivered), 1,
                                                       acc.delivered, acc.inventory),
                        !.quests = acc.quests,
                        !.quest_journal = acc.journal]),
         notices |-> acc.notices, rewards |-> acc.rewards, delivered |-> acc.delivered]
  IN IF DOMAIN normalized_handover = {} \/ DOMAIN remaining = {} THEN NoDelivery(state)
     ELSE IF ~(npc_id \in DOMAIN state.npc_locations
               /\ state.npc_locations[npc_id] = location_id) THEN NoDelivery(state)
     ELSE Delivered(DeliverLoop([remaining |-> remaining, delivered |-> EmptyMap,
                                 rewards |-> EmptyMap, inventory |-> state.inventory,
                                 journal |-> state.quest_journal, quests |-> state.quests,
                                 notices |-> <<>>],
                                QuestsInOrder(state.quest_journal), 1, npc_id, location_id))

\* -------------------------------------------------------- apply_turn_output
NewQuestProgress(quest_id) ==
  [title |-> FallbackTitle(quest_id), category |-> "side", status |-> "available",
   objective |-> EmptyText, guidance |-> EmptyText, giver_npc_id |-> NoValue,
   required_items |-> EmptyMap, collected_items |-> EmptyMap, reward_items |-> EmptyMap]

ProgressFromWorldDefinition(quest_id) ==
  LET world_def == WorldQuestDefinitions[quest_id]
      required == NormalizeItemMap(world_def.required_items)
  IN [title |-> IF ~IsEmptyText(world_def.title) THEN world_def.title
                ELSE FallbackTitle(quest_id),
      category |-> world_def.category,
      status |-> IF world_def.category = "main" THEN "active" ELSE "available",
      objective |-> world_def.objective, guidance |-> EmptyText,
      giver_npc_id |-> world_def.giver_npc_id,
      required_items |-> required,
      collected_items |-> [k \in DOMAIN required |-> 0],
      reward_items |-> NormalizeItemMap(world_def.reward_items)]

RECURSIVE MergeInventory(_, _, _, _)
MergeInventory(items, i, delta, inventory) ==
  IF i > Len(items) THEN inventory
  ELSE LET new_value == Get(inventory, items[i]) + delta[items[i]]
       IN MergeInventory(items, i + 1, delta,
                         IF delta[items[i]] = 0 THEN inventory
                         ELSE IF new_value <= 0 THEN Pop(inventory, items[i])
                         ELSE Put(inventory, items[i], new_value))

AllowTurnCollectedDelta(entry, required, delta) ==
  IF delta <= 0 THEN TRUE
  ELSE IF entry.category \in {"side", "main"} /\ DOMAIN required # {} THEN FALSE
  ELSE TRUE

RECURSIVE ApplyCollectedDelta(_, _, _, _, _, _)
ApplyCollectedDelta(items, i, delta, entry, required, collected) ==
  IF i > Len(items) THEN collected
  ELSE LET normalized_item == ResolveRequiredItem(required, items[i])
           new_count == Get(collected, normalized_item) + delta[items[i]]
       IN ApplyCollectedDelta(items, i + 1, delta, entry, required,
            IF ~AllowTurnCollectedDelta(entry, required, delta[items[i]]) THEN collected
            ELSE IF normalized_item = NoValue THEN collected
            ELSE IF new_count <= 0 THEN Pop(collected, normalized_item)
            ELSE IF normalized_item \in DOMAIN required
            THEN Put(collected, normalized_item, Min(new_count, required[normalized_item]))
            ELSE Put(collected, normalized_item, new_count))

AdHocDefinition(current, update, npc_id) ==
  [current EXCEPT
     !.title = IF update.title # NoText /\ IsEmptyText(@) THEN update.title ELSE @,
     !.category = IF update.category # NoValue /\ @ = "" THEN update.category ELSE @,
     !.objective = IF update.objective # NoText /\ IsEmptyText(@) THEN update.objective ELSE @,
     !.giver_npc_id = IF update.giver_npc_id # NoValue /\ @ = NoValue THEN update.giver_npc_id
                      ELSE IF @ = NoValue THEN npc_id ELSE @,
     !.required_items = IF DOMAIN @ = {} THEN NormalizeItemMap(update.required_items)
                        ELSE NormalizeItemMap(@),
     !.reward_items = IF DOMAIN @ = {} THEN NormalizeItemMap(update.reward_items)
                      ELSE NormalizeItemMap(@)]

ApplyQuestProgressUpdateAdHoc(data, update, npc_id) ==
  LET quest_id == update.quest_id
      known == quest_id \in DOMAIN data.quest_journal
      current0 == IF known THEN data.quest_journal[quest_id]
                  ELSE IF quest_id \in WorldQuestIds THEN ProgressFromWorldDefinition(quest_id)
                  ELSE NewQuestProgress(quest_id)
      current1 == IF quest_id \in WorldQuestIds THEN ApplyWorldDefinition(quest_id, current0)
                  ELSE AdHocDefinition(current0, update, npc_id)
      current2 == [current1 EXCEPT
                     !.title = IF IsEmptyText(@) THEN FallbackTitle(quest_id) ELSE @,
                     !.guidance = IF update.guidance # NoText THEN update.guidance ELSE @]
      Progressed(current) ==
        LET required == NormalizeItemMap(current.required_items)
        IN [current EXCEPT
              !.required_items = required,
              !.collected_items =
                 ApplyCollectedDelta(Keys(update.collected_items_delta), 1,
                                     update.collected_items_delta, current, required,
                                     CoerceCollectedMap(@, required)),
              !.status = IF update.status # NoValue THEN NormalizeStatus(update.status)
                         ELSE @]
      Stored(current) ==
        [data EXCEPT
           !.main_quest_id = IF current.category = "main" /\ @ = NoValue THEN quest_id ELSE @,
           !.quests = Put(@, quest_id, current.status),
           !.quest_journal = Put(@, quest_id, current)]
  IN Stored(Progressed(current2))

ApplyQuestProgressUpdate(data, update, npc_id) ==
  LET quest_id == update.quest_id
      known == quest_id \in DOMAIN data.quest_journal
      current0 == IF known THEN data.quest_journal[quest_id]
                  ELSE ProgressFromWorldDefinition(quest_id)
      current1 == IF quest_id \in WorldQuestIds THEN ApplyWorldDefinition(quest_id, current0)
                  ELSE AdHocDefinition(current0, update, npc_id)
      current2 == [current1 EXCEPT
                     !.title = IF IsEmptyText(@) THEN FallbackTitle(quest_id) ELSE @,
                     !.guidance = IF update.guidance # NoText THEN update.guidance ELSE @]
      Progressed(current) ==
        LET required == NormalizeItemMap(current.required_items)
        IN [current EXCEPT
              !.required_items = required,
              !.collected_items =
                 ApplyCollectedDelta(Keys(update.collected_items_delta), 1,
                                     update.collected_items_delta, current, required,
                                     CoerceCollectedMap(@, required)),
              !.status = IF update.status # NoValue THEN NormalizeStatus(update.status)
                         ELSE @]
      Stored(current) ==
        [data EXCEPT
           !.main_quest_id = IF current.category = "main" /\ @ = NoValue THEN quest_id ELSE @,
           !.quests = Put(@, quest_id, current.status),
           !.quest_journal = Put(@, quest_id, current)]
  IN IF ~known /\ quest_id \notin WorldQuestIds THEN data
     ELSE Stored(Progressed(current2))

RECURSIVE ApplyQuestProgressUpdates(_, _, _, _)
ApplyQuestProgressUpdates(data, updates, i, npc_id) ==
  IF i > Len(updates) THEN data
  ELSE ApplyQuestProgressUpdates(ApplyQuestProgressUpdate(data, updates[i], npc_id),
                                 updates, i + 1, npc_id)

LegacyQuestUpdates(data, quest_updates) ==
  [data EXCEPT
     !.quests = [q \in DOMAIN @ \cup DOMAIN quest_updates |->
                   IF q \in DOMAIN quest_updates THEN quest_updates[q] ELSE @[q]],
     !.quest_journal =
        [q \in DOMAIN @ \cup DOMAIN quest_updates |->
           IF q \in DOMAIN quest_updates
           THEN [(IF q \in DOMAIN @ THEN @[q] ELSE NewQuestProgress(q)) EXCEPT
                   !.status = NormalizeStatus(quest_updates[q]),
                   !.title = IF IsEmptyText(@) THEN FallbackTitle(q) ELSE @]
           ELSE @[q]]]

\* a turn applied without looking at where it leaves the player
ApplyTurnOutputUnvalidated(state, output, npc_id) ==
  LET merged == [state EXCEPT
                   !.last_turn_id = @ + 1,
                   !.flags = [f \in DOMAIN @ \cup DOMAIN output.flags_delta |->
                                IF f \in DOMAIN output.flags_delta THEN output.flags_delta[f]
                                ELSE @[f]]]
      legacy == LegacyQuestUpdates(merged, output.quest_updates)
      bagged == [legacy EXCEPT
                   !.inventory = MergeInventory(Keys(output.inventory_delta), 1,
                                                output.inventory_delta, @)]
      updated == ApplyQuestProgressUpdates(bagged, output.quest_progress_updates, 1, npc_id)
      synced == SyncQuestJournalWithInventory(updated)
  IN [ok |-> TRUE,
      state |-> [synced EXCEPT
                   !.player_location = IF output.player_location # NoValue
                                       THEN output.player_location ELSE @]]

apply_turn_output(state, output, npc_id) ==
  LET merged == [state EXCEPT
                   !.last_turn_id = @ + 1,
                   !.flags = [f \in DOMAIN @ \cup DOMAIN output.flags_delta |->
                                IF f \in DOMAIN output.flags_delta THEN output.flags_delta[f]
                                ELSE @[f]]]
      legacy == LegacyQuestUpdates(merged, output.quest_updates)
      bagged == [legacy EXCEPT
                   !.inventory = MergeInventory(Keys(output.inventory_delta), 1,
                                                output.inventory_delta, @)]
      updated == ApplyQuestProgressUpdates(bagged, output.quest_progress_updates, 1, npc_id)
      synced == SyncQuestJournalWithInventory(updated)
      Validated(moved) ==
        IF ~ValidState(moved) THEN [ok |-> FALSE, state |-> state]
        ELSE [ok |-> TRUE, state |-> moved]
  IN IF output.player_location # NoValue /\ output.player_location \notin LocationIds
     THEN [ok |-> FALSE, state |-> state]
     ELSE Validated([synced EXCEPT
                       !.player_location = IF output.player_location # NoValue
                                           THEN output.player_location ELSE @])

\* ------------------------------------------------------------- main trial
evaluate_main_trial_readiness(state) ==
  IF state.main_quest_id = NoValue THEN FALSE
  ELSE IF state.main_quest_id \notin DOMAIN state.quest_journal THEN FALSE
  ELSE LET required == state.quest_journal[state.main_quest_id].required_items
       IN IF DOMAIN required = {} THEN FALSE
          ELSE \A k \in DOMAIN required :
                 InventoryAmountForItem(state.inventory, k) >= required[k]

resolve_main_trial(state, passed) ==
  LET main_quest_id == state.main_quest_id
      data == [state EXCEPT
                 !.flags = [f \in DOMAIN @ \cup {PassedFlag(main_quest_id),
                                                  FailedFlag(main_quest_id)} |->
                              IF f = PassedFlag(main_quest_id) THEN passed
                              ELSE IF f = FailedFlag(main_quest_id) THEN ~passed
                              ELSE @[f]],
                 !.quest_journal[main_quest_id].status =
                    IF passed THEN "completed" ELSE "failed"]
  IN IF main_quest_id = NoValue \/ main_quest_id \notin DOMAIN state.quest_journal THEN state
     ELSE SyncQuestJournalWithInventory(data)

\* streamlit_app: the final trial is offered only once every side quest is done
AllSideQuestsCompleted(state) ==
  /\ WorldSideIds # {}
  /\ \A q \in WorldSideIds :
       q \in DOMAIN state.quest_journal /\ state.quest_journal[q].status = "completed"

\* ------------------------------------------------------------------ run_turn
\* The steps of run_turn that can raise.  reply is <<kind, output>>, what the
\* LLM call and the schema validation yield: kind is "llm_error" when
\* generate_json raises, "invalid" when validate_turn_output raises, and
\* otherwise "output" with the turn output as the guards leave it.  io is the
\* outcome of the two writes that end the turn.
MetFlag(npc_id) == <<"met", npc_id>>

CoercionFlag(npc_id) == <<"coercion", npc_id>>

TurnFailure(state, snapshot, turn_log) ==
  [failed |-> TRUE, state |-> state, snapshot |-> snapshot, turn_log |-> turn_log]

\* ------------------------------------------------------------ turn outputs
NoFlags == [f \in {} |-> FALSE]

NoStatuses == [q \in {} |-> ""]

Update(quest_id, status, guidance, delta, required) ==
  [quest_id |-> quest_id, title |-> NoText, category |-> NoValue, status |-> status,
   objective |-> NoText, guidance |-> guidance, giver_npc_id |-> NoValue,
   required_items |-> required, reward_items |-> EmptyMap,
   collected_items_delta |-> delta]

Output(flags_delta, quest_updates, inventory_delta, updates, player_location) ==
  [flags_delta |-> flags_delta, quest_updates |-> quest_updates,
   inventory_delta |-> inventory_delta, quest_progress_updates |-> updates,
   player_location |-> player_location, npc_moves |-> <<>>]

One(k, v) == [x \in {k} |-> v]

LlmGuidance == Text("llm_guidance", {"Bo"})

Bag(ration, rations, token) ==
  NormalizeItemMap([k \in ItemKeys |->
     IF k = "ration" THEN ration ELSE IF k = "rations" THEN rations ELSE token])

InventoryOutputs ==
  {Output(NoFlags, NoStatuses, d, <<>>, NoValue) :
     d \in {One("ration", 2), Bag(1, 1, 0), One("token", 1), One("ration", -1)}}

FlagOutputs ==
  {Output(One(PassedFlag(MainId), TRUE), NoStatuses, EmptyMap, <<>>, NoValue)}

LegacyOutputs ==
  {Output(NoFlags, One(q[1], q[2]), EmptyMap, <<>>, NoValue) :
     q \in {<<LegacyId, "accepted">>, <<SideId, "done">>}}

SideUpdates ==
  {Update(SideId, u[1], u[2], u[3], EmptyMap) :
     u \in {<<NoValue, LlmGuidance, EmptyMap>>,
            <<"completed", NoText, EmptyMap>>,
            <<"available", NoText, EmptyMap>>,
            <<"failed", NoText, EmptyMap>>,
            <<NoValue, NoText, One("ration", 1)>>,
            <<NoValue, NoText, One("ration", -1)>>}}

MainUpdates ==
  {Update(MainId, "completed", NoText, EmptyMap, EmptyMap)}

OtherUpdates ==
  {Update(LegacyId, NoValue, NoText, EmptyMap, One("ration", 1)),
   Update(UnknownId, "active", NoText, EmptyMap, One("ration", 1))}

ProgressOutputs ==
  {Output(NoFlags, NoStatuses, EmptyMap, <<u>>, NoValue) :
     u \in SideUpdates \cup MainUpdates \cup OtherUpdates}

CombinedOutputs ==
  {Output(NoFlags, One(LegacyId, "accepted"), EmptyMap,
          <<Update(LegacyId, NoValue, NoText, One("ration", 2), EmptyMap)>>, NoValue),
   Output(NoFlags, NoStatuses, One("ration", 1),
          <<Update(SideId, NoValue, NoText, One("ration", -1), EmptyMap)>>, NoValue)}

MoveOutputs ==
  {Output(NoFlags, NoStatuses, EmptyMap, <<>>, l) : l \in {"forest", "nowhere"}}

TurnOutputs ==
  InventoryOutputs \cup FlagOutputs \cup LegacyOutputs \cup ProgressOutputs
  \cup CombinedOutputs \cup MoveOutputs

\* <<output, npc_id>> of a turn: the NPC spoken to is read only when an update
\* defines a quest that the world does not define
TurnInputs ==
  {<<o, "npc_a">> : o \in TurnOutputs}
  \cup {<<o, "npc_b">> : o \in {x \in ProgressOutputs :
          x.quest_progress_updates[1].quest_id = LegacyId}}

Handovers ==
  {One("ration", 1), One("ration", MaxCount), One("token", 1),
   Bag(1, 1, 0), Bag(MaxCount, 0, 1), One("ration", 0)}

\* <<npc_id, location_id>> of a delivery: each NPC at home, and one away from home
DeliverySites == {<<"npc_a", "forest">>, <<"npc_b", "town">>, <<"npc_a", "town">>}

NoOutput == Output(NoFlags, NoStatuses, EmptyMap, <<>>, NoValue)

\* ------------------------------------------------------ consistency guards
\* A player-visible string of a turn output is the set of the cues it
\* contains; the empty set is the empty string.  A cue is a phrase one of the
\* guards looks for, or the system note of a guard.
GuardNames == {"anachronism", "identity", "roster", "quest_grounding"}

GuardNote(guard_name) ==
  CASE guard_name = "anachronism" -> "System note: consistency guard (anachronism)"
    [] guard_name = "identity" -> "System note: consistency guard (identity)"
    [] guard_name = "roster" -> "System note: consistency guard (roster)"
    [] OTHER -> "System note: consistency guard (quest_grounding)"

GuardNotes == {GuardNote(g) : g \in GuardNames}

\* a is a substring of the cue
CueContains(cue, a) ==
  \/ cue = a
  \/ IsSubstring(a, cue)
  \/ cue \in GuardNotes /\ a = "guard"
  \/ cue = GuardNote("quest_grounding") /\ a = "quest"
  \/ cue = "bring wifi" /\ a \in {"bring", "wifi"}

TextContains(text, a) == \E cue \in text : CueContains(cue, a)

DialogueLine(npc_id, text) == [npc_id |-> npc_id, text |-> text]

TurnOutput(narration, npc_dialogue, world_updates) ==
  [narration |-> narration, npc_dialogue |-> npc_dialogue, world_updates |-> world_updates]

NpcProfession(npc) == IF npc = "npc_a" THEN "herbalist" ELSE "hunter"

TechLevel == "medieval"

DEFAULT_ANACHRONISM_TERMS == {"phone", "wifi", "gun"}

COMMON_ROLE_TERMS == {"blacksmith", "healer", "doctor", "guard", "merchant"}

extract_terms(text, terms) == {term \in terms : TextContains(text, term)}

TextsOf(output) ==
  {output.narration} \cup {output.npc_dialogue[i].text : i \in DOMAIN output.npc_dialogue}

\* every term of the NPC texts, whatever the player said
DetectEveryMention(player_text, npc_texts, terms) ==
  UNION {extract_terms(text, terms) : text \in npc_texts}

detect_first_mention(player_text, npc_texts, terms) ==
  UNION {extract_terms(text, terms) : text \in npc_texts} \ extract_terms({player_text}, terms)

DetectUnknownReferences(texts, roster_professions) ==
  {role \in COMMON_ROLE_TERMS :
     /\ \E text \in texts : TextContains(text, role)
     /\ ~ \E prof \in roster_professions : CueContains(prof, role)}

ClaimsOtherIdentity(text, npc_name, other_names) ==
  \E other \in other_names :
    /\ other # ""
    /\ other # npc_name
    /\ \/ other = "Bo" /\ TextContains(text, "i am bo")
       \/ other = "Mila" /\ TextContains(text, "i am mila")

ContainsMaterialOrQuestCue(text) ==
  \E cue \in {"quest", "material", "deliver", "collect", "gather", "bring", "required"} :
    TextContains(text, cue)

ContainsNoRequestPhrase(text) ==
  \E marker \in {"no need", "nothing to deliver", "no requirements"} :
    TextContains(text, marker)

MentionedItemsInText(texts, item_names) ==
  {item_name \in item_names : \E text \in texts : TextContains(text, item_name)}

AppendGuardWarning(output, guard_name) ==
  [output EXCEPT !.narration = @ \cup {GuardNote(guard_name)}]

EnsureNpcDialogue(output, npc_id) ==
  IF \E i \in DOMAIN output.npc_dialogue : output.npc_dialogue[i].text # {}
  THEN output
  ELSE IF output.narration = {} THEN output
  ELSE [output EXCEPT !.npc_dialogue = <<DialogueLine(npc_id, output.narration)>>,
                      !.narration = {}]

RosterProfessions == {NpcProfession(n) : n \in NpcIds}

AllowedWorldItems(state) ==
  UNION {DOMAIN WorldQuestDefinitions[q].required_items
           \cup DOMAIN WorldQuestDefinitions[q].reward_items : q \in WorldQuestIds}
  \cup UNION {DOMAIN state.quest_journal[q].required_items
                \cup DOMAIN state.quest_journal[q].reward_items :
              q \in DOMAIN state.quest_journal}
  \cup DOMAIN state.inventory

OpenSideQuests(state) ==
  {q \in DOMAIN state.quest_journal :
     /\ state.quest_journal[q].category = "side"
     /\ state.quest_journal[q].status \notin {"completed", "failed"}}

NpcAssignedQuests(state, npc_id) ==
  {q \in OpenSideQuests(state) : state.quest_journal[q].giver_npc_id = npc_id}

RequiredItemsOf(state, quest_ids) ==
  UNION {DOMAIN state.quest_journal[q].required_items : q \in quest_ids}

\* a client that hands on whatever the repair retry returned
ReplyParsedLeniently(reply) == reply[1] # "invalid"

\* a reply of the model to one generate_json call: how the call went, and the
\* turn output its JSON holds
ReplyParsed(reply) == reply[1] \in {"json", "repaired"}

\* a client that asks for a repair again when the repaired text is not JSON
ChatRequestsRetrying(reply) ==
  IF reply[1] = "unparseable" THEN 3 ELSE IF reply[1] = "repaired" THEN 2 ELSE 1

\* the chat requests one generate_json call makes: the request, and one more
\* when the first answer is not JSON
ChatRequests(reply) == IF reply[1] \in {"repaired", "unparseable"} THEN 2 ELSE 1

Unasked(output) == [raised |-> FALSE, asked |-> FALSE, output |-> output]

Raised(output) == [raised |-> TRUE, asked |-> TRUE, output |-> output]

Fixed(fixed_output) == [raised |-> FALSE, asked |-> TRUE, output |-> fixed_output]

FirstMentions(world, player_text, output) ==
  IF world.tech_level # "medieval" THEN {}
  ELSE detect_first_mention(player_text, TextsOf(output), DEFAULT_ANACHRONISM_TERMS)

EnforceNoFirstMention(world, player_text, output, reply) ==
  IF FirstMentions(world, player_text, output) = {} THEN Unasked(output)
  ELSE IF ~ReplyParsed(reply) THEN Raised(output)
  ELSE IF FirstMentions(world, player_text, reply[2]) # {} THEN Raised(output)
  ELSE Fixed(reply[2])

IdentityViolation(output, npc_id) ==
  \E i \in DOMAIN output.npc_dialogue :
    /\ output.npc_dialogue[i].npc_id = npc_id
    /\ output.npc_dialogue[i].text # {}
    /\ ClaimsOtherIdentity(output.npc_dialogue[i].text, NpcName(npc_id),
                           {NpcName(n) : n \in NpcIds \ {npc_id}})

EnforceIdentityClaims(output, npc_id, reply) ==
  IF ~IdentityViolation(output, npc_id) THEN Unasked(output)
  ELSE IF ~ReplyParsed(reply) THEN Raised(output)
  ELSE IF IdentityViolation(EnsureNpcDialogue(reply[2], npc_id), npc_id) THEN Raised(output)
  ELSE Fixed(EnsureNpcDialogue(reply[2], npc_id))

UnknownReferences(output) ==
  DetectUnknownReferences(TextsOf(output) \ {{}}, RosterProfessions)

EnforceWorldRoster(output, npc_id, reply) ==
  IF UnknownReferences(output) = {} THEN Unasked(output)
  ELSE IF ~ReplyParsed(reply) THEN Raised(output)
  ELSE IF UnknownReferences(EnsureNpcDialogue(reply[2], npc_id)) # {} THEN Raised(output)
  ELSE Fixed(EnsureNpcDialogue(reply[2], npc_id))

NeedsQuestRewrite(state, player_text, output, npc_id) ==
  LET npc_lines ==
        ({output.npc_dialogue[i].text :
            i \in {j \in DOMAIN output.npc_dialogue : output.npc_dialogue[j].npc_id = npc_id}}
         \cup {output.narration}) \ {{}}
      combined == UNION npc_lines
      assigned == NpcAssignedQuests(state, npc_id)
      assigned_items == RequiredItemsOf(state, assigned)
      other_active_items == RequiredItemsOf(state, OpenSideQuests(state) \ assigned)
      has_material_cue ==
        ContainsMaterialOrQuestCue(combined) \/ ContainsMaterialOrQuestCue({player_text})
      mentions == MentionedItemsInText(npc_lines, AllowedWorldItems(state))
      refuses_request == ContainsNoRequestPhrase(combined)
  IN /\ npc_lines # {}
     /\ \/ /\ assigned_items # {} /\ has_material_cue /\ ~refuses_request
           /\ \/ mentions \cap assigned_items = {}
              \/ mentions \cap other_active_items # {}
        \/ /\ has_material_cue /\ mentions = {} /\ assigned_items # {} /\ ~refuses_request

EnforceQuestGrounding(state, player_text, output, npc_id, reply) ==
  IF ~NeedsQuestRewrite(state, player_text, output, npc_id) THEN Unasked(output)
  ELSE IF ~ReplyParsed(reply) THEN Raised(output)
  ELSE Fixed(EnsureNpcDialogue(reply[2], npc_id))

GuardedRewrite(guard_name, output, rewritten) ==
  IF rewritten.raised
  THEN [output |-> AppendGuardWarning(output, guard_name), warning |-> <<guard_name>>]
  ELSE [output |-> rewritten.output, warning |-> <<>>]

\* ----------------------------------------------------- a turn, guard by guard
GuardPlayerTexts == {"hello", "bring wifi"}

GuardNarrations == {{}, {"wifi"}}

GuardLines ==
  {{"hello"}, {"i am bo"}, {"blacksmith"}, {"bring"}, {"bring", "ration"}, {"gun"}}

GuardDialogues == {<<>>} \cup {<<DialogueLine("npc_a", text)>> : text \in GuardLines}

GuardOutputs ==
  {TurnOutput(narration, npc_dialogue, NoOutput) :
     narration \in GuardNarrations, npc_dialogue \in GuardDialogues}

NoTurnOutput == TurnOutput({}, <<>>, NoOutput)

GuardReplies ==
  {<<kind, output>> : kind \in {"json", "repaired"}, output \in GuardOutputs}
  \cup {<<kind, NoTurnOutput>> : kind \in {"unparseable", "invalid"}}

IdleTurn ==
  [pc |-> "idle", player_text |-> "hello", npc_id |-> "npc_a", output |-> NoTurnOutput,
   guard_warnings |-> <<>>, detected |-> {}, rewrites |-> [g \in GuardNames |-> 0],
   json_calls |-> 0, chat_calls |-> 0, request_kind |-> "none", unparseable |-> FALSE,
   outcome |-> "none"]

\* the turn after the generate_json call and the validation that open run_turn
Requested(player_text, npc_id, reply) ==
  [IdleTurn EXCEPT
     !.pc = IF ReplyParsed(reply) THEN "anachronism" ELSE "idle",
     !.player_text = player_text,
     !.npc_id = npc_id,
     !.output = reply[2],
     !.json_calls = 1,
     !.chat_calls = ChatRequests(reply),
     !.request_kind = reply[1],
     !.unparseable = (reply[1] = "unparseable"),
     !.outcome = IF ReplyParsed(reply) THEN "none" ELSE "failed"]

\* the turn after one guard: rewritten is what the guard's function did with
\* the reply to the rewrite it may have asked for
Guarded(current, guard_name, next_pc, rewritten, reply) ==
  [current EXCEPT
     !.pc = next_pc,
     !.output = GuardedRewrite(guard_name, current.output, rewritten).output,
     !.guard_warnings = @ \o GuardedRewrite(guard_name, current.output, rewritten).warning,
     !.detected = IF rewritten.asked THEN @ \cup {guard_name} ELSE @,
     !.rewrites = [@ EXCEPT ![guard_name] = IF rewritten.asked THEN @ + 1 ELSE @],
     !.json_calls = IF rewritten.asked THEN @ + 1 ELSE @,
     !.chat_calls = IF rewritten.asked THEN @ + ChatRequests(reply) ELSE @,
     !.unparseable = @ \/ (rewritten.asked /\ reply[1] = "unparseable")]

\* ----------------------------------------------------------- NPC movement
\* A world, as the movement checks read it: the ids of its locations, the
\* connected_to list of each, and the profile of each NPC of its roster.
NPCMove(npc_id, from_location, to_location) ==
  [npc_id |-> npc_id, from_location |-> from_location, to_location |-> to_location]

NPCProfile(obedience_level, stubbornness, risk_tolerance, disposition_to_player, traits, goals) ==
  [obedience_level |-> obedience_level, stubbornness |-> stubbornness,
   risk_tolerance |-> risk_tolerance, disposition_to_player |-> disposition_to_player,
   traits |-> traits, goals |-> goals]

\* levels are in tenths: 8 is 0.8
CourierProfile == NPCProfile(8, 2, 7, 1, {"brave"}, {"deliver messages"})

WorldSpec(connected_to, npcs) ==
  [locations |-> DOMAIN connected_to, connected_to |-> connected_to, npcs |-> npcs,
   tech_level |-> TechLevel]

SessionWorld ==
  WorldSpec([l \in LocationIds |-> LocationIds \ {l}], [n \in NpcIds |-> CourierProfile])

\* a graph in which every road can be walked both ways
BuildGraphBothWays(world) ==
  [loc \in world.locations |->
     {target \in world.locations :
        target \in world.connected_to[loc] \/ loc \in world.connected_to[target]}]

build_graph(world) ==
  [loc \in world.locations |-> {target \in world.connected_to[loc] : target \in world.locations}]

RECURSIVE SetToSeq(_)
SetToSeq(S) ==
  IF S = {} THEN <<>>
  ELSE LET x == CHOOSE y \in S : TRUE IN <<x>> \o SetToSeq(S \ {x})

\* the loop of is_reachable: the queue of nodes to expand and the nodes seen
RECURSIVE ReachLoop(_, _, _, _)
ReachLoop(graph, visited, queue, goal) ==
  IF queue = <<>> THEN FALSE
  ELSE IF goal \in graph[Head(queue)] THEN TRUE
  ELSE ReachLoop(graph, visited \cup graph[Head(queue)],
                 Tail(queue) \o SetToSeq(graph[Head(queue)] \ visited), goal)

is_reachable(graph, start, goal) ==
  IF start = goal THEN start \in DOMAIN graph
  ELSE IF start \notin DOMAIN graph \/ goal \notin DOMAIN graph THEN FALSE
  ELSE ReachLoop(graph, {start}, <<start>>, goal)

Verdict(ok, reason) == [ok |-> ok, reason |-> reason]

\* a validation that looks at the target before the NPC's recorded location
ValidateTargetFirst(move, state, world, graph) ==
  IF move.npc_id \notin DOMAIN world.npcs THEN Verdict(FALSE, <<"npc_id not found">>)
  ELSE IF move.npc_id \notin DOMAIN state.npc_locations
  THEN Verdict(FALSE, <<"npc_id missing in npc_locations">>)
  ELSE IF move.to_location \notin world.locations
  THEN Verdict(FALSE, <<"to_location unknown">>)
  ELSE IF move.from_location # state.npc_locations[move.npc_id]
  THEN Verdict(FALSE, <<"from_location mismatch (expected", state.npc_locations[move.npc_id]>>)
  ELSE IF ~is_reachable(graph, move.from_location, move.to_location)
  THEN Verdict(FALSE, <<"to_location unreachable">>)
  ELSE Verdict(TRUE, <<"ok">>)

\* a validation that does not ask whether a road leads to the target
ValidateIgnoringRoads(move, state, world, graph) ==
  IF move.npc_id \notin DOMAIN world.npcs THEN Verdict(FALSE, <<"npc_id not found">>)
  ELSE IF move.npc_id \notin DOMAIN state.npc_locations
  THEN Verdict(FALSE, <<"npc_id missing in npc_locations">>)
  ELSE IF move.from_location # state.npc_locations[move.npc_id]
  THEN Verdict(FALSE, <<"from_location mismatch (expected", state.npc_locations[move.npc_id]>>)
  ELSE IF move.to_location \notin world.locations
  THEN Verdict(FALSE, <<"to_location unknown">>)
  ELSE Verdict(TRUE, <<"ok">>)

ValidateNpcMoveWithGraph(move, state, world, graph) ==
  IF move.npc_id \notin DOMAIN world.npcs THEN Verdict(FALSE, <<"npc_id not found">>)
  ELSE IF move.npc_id \notin DOMAIN state.npc_locations
  THEN Verdict(FALSE, <<"npc_id missing in npc_locations">>)
  ELSE IF move.from_location # state.npc_locations[move.npc_id]
  THEN Verdict(FALSE, <<"from_location mismatch (expected", state.npc_locations[move.npc_id]>>)
  ELSE IF move.to_location \notin world.locations
  THEN Verdict(FALSE, <<"to_location unknown">>)
  ELSE IF ~is_reachable(graph, move.from_location, move.to_location)
  THEN Verdict(FALSE, <<"to_location unreachable">>)
  ELSE Verdict(TRUE, <<"ok">>)

validate_npc_move(move, state, world) ==
  ValidateNpcMoveWithGraph(move, state, world, build_graph(world))

MoveRejected(move, reason) ==
  [type |-> "move_rejected", npc_id |-> move.npc_id, from_location |-> move.from_location,
   to_location |-> move.to_location, reason |-> reason]

\* GameState.validate_references
ValidReferences(state, world) ==
  /\ DOMAIN state.npc_locations = DOMAIN world.npcs
  /\ \A n \in DOMAIN state.npc_locations : state.npc_locations[n] \in world.locations

\* a loop that gives up at the first move that fails
MovesLoopStopping(moves, working_state, events, world, graph) ==
  IF moves = <<>> THEN [state |-> working_state, events |-> events]
  ELSE [state |-> working_state,
        events |-> Append(events, MoveRejected(Head(moves), <<"batch rejected">>))]

\* the loop of apply_validated_moves over the moves that are left
RECURSIVE MovesLoop(_, _, _, _, _)
MovesLoop(moves, working_state, events, world, graph) ==
  IF moves = <<>> THEN [state |-> working_state, events |-> events]
  ELSE LET Checked(move, verdict) ==
             IF verdict.ok
             THEN MovesLoop(Tail(moves),
                            [working_state EXCEPT
                               !.npc_locations = Put(@, move.npc_id, move.to_location)],
                            events, world, graph)
             ELSE MovesLoop(Tail(moves), working_state,
                            Append(events, MoveRejected(move, verdict.reason)), world, graph)
       IN Checked(Head(moves),
                  ValidateNpcMoveWithGraph(Head(moves), working_state, world, graph))

\* the returned state and events, and the state object the caller passed in
\* as the call leaves it
apply_validated_moves(moves, state, world) ==
  LET Returned(result) ==
        [input |-> state, ok |-> ValidReferences(result.state, world),
         state |-> result.state, events |-> result.events]
  IN Returned(MovesLoop(moves, state, <<>>, world, build_graph(world)))

\* ------------------------------------------------- worlds and move requests
MoveLocations == {"town", "forest", "cave"}

\* an id no location has
NoLocation == "void"

Roads(town, forest, cave) ==
  [l \in MoveLocations |-> IF l = "town" THEN town ELSE IF l = "forest" THEN forest ELSE cave]

MoveWorlds ==
  {WorldSpec(connected_to, [n \in NpcIds |-> CourierProfile]) :
     connected_to \in {Roads({"forest"}, {"cave"}, {}),
                       Roads({"forest"}, {"cave"}, {"town"}),
                       Roads({"forest", "cave"}, {}, {"town"}),
                       Roads({NoLocation}, {"forest"}, {}),
                       Roads({NoLocation, "forest"}, {NoLocation}, {"forest"}),
                       Roads({}, {}, {})}}

Moves ==
  {NPCMove(npc_id, from_location, to_location) :
     npc_id \in NpcIds \cup {"npc_x"},
     from_location \in MoveLocations,
     to_location \in MoveLocations \cup {NoLocation}}

MoveLists ==
  {<<move>> : move \in Moves}
  \cup {<<first, second>> : first \in {m \in Moves : m.npc_id = "npc_a"}, second \in Moves}

NotMoved ==
  [op |-> "none", calls |-> 0, moves |-> <<>>, before |-> InitializeGameState,
   input |-> InitializeGameState, verdict |-> Verdict(TRUE, <<"ok">>), events |-> <<>>,
   player_text |-> "", dialogue |-> [n \in {} |-> <<>>], allowed |-> <<>>, score |-> 0,
   previous |-> [op |-> "none"]]

\* ------------------------------------------------------------- NPC agency
\* Scores and thresholds are in thousandths, levels of a profile in tenths.
\* What the player says in the turns of the agency gate.
AgencyPlayerTexts == {"hello", "meet me at the cave", "go to the cave now", "force you"}

PlayerTextContains(player_text, a) ==
  \/ player_text = "meet me at the cave" /\ a = "cave"
  \/ player_text = "go to the cave now" /\ a \in {"cave", "now"}
  \/ player_text = "force you" /\ a = "force you"
  \/ player_text = "force you to town" /\ a \in {"force you", "town"}

IsCoerciveText(player_text) == PlayerTextContains(player_text, "force you")

RiskyTerms == {"forest", "ruins", "bandit", "dark", "cave", "dungeon", "bridge", "swamp"}

AnchoredRoles == {"merchant", "shopkeeper", "innkeeper", "guard", "priest", "healer"}

AnchoredGoals == {"protect", "guard", "keep shop", "keep", "watch", "avoid trouble"}

Clamp(value, lo, hi) == Max(lo, Min(hi, value))

\* moved: the last movement or agency call, what it was given and what it
\* returned.
VARIABLE moved

BaseThresholdRisingWithCalls(player_text) ==
  (IF \E token \in {"must", "order", "now", "command", "immediately"} :
        PlayerTextContains(player_text, token)
   THEN 550 + 50 ELSE 550) + 100 * moved.calls

BaseThreshold(player_text) ==
  IF \E token \in {"must", "order", "now", "command", "immediately"} :
       PlayerTextContains(player_text, token)
  THEN 550 + 50 ELSE 550

Penalty(amount, tags) == [amount |-> amount, tags |-> tags]

RiskAlignmentPenalty(npc, world, to_location) ==
  IF to_location \notin world.locations THEN Penalty(0, <<>>)
  ELSE IF ~ \E term \in RiskyTerms : CueContains(to_location, term)
  THEN Penalty(50, <<"risk_safe">>)
  ELSE IF npc.risk_tolerance >= 7 THEN Penalty(50, <<"risk_tolerant">>)
  ELSE IF npc.risk_tolerance <= 3 THEN Penalty(-200, <<"risk">>)
  ELSE Penalty(-100, <<"risk">>)

Anchored(npc, npc_id) ==
  \/ \E role \in AnchoredRoles : CueContains(NpcProfession(npc_id), role)
  \/ \E term \in AnchoredGoals : TextContains(npc.goals, term)
  \/ TextContains(npc.traits, "coward")
  \/ TextContains(npc.traits, "cautious")

RoleConstraintsPenalty(npc, state, move) ==
  LET tags == IF TextContains(npc.traits, "coward") \/ TextContains(npc.traits, "cautious")
              THEN <<"risk">> ELSE <<>>
  IN IF /\ Anchored(npc, move.npc_id)
        /\ \/ move.npc_id \notin DOMAIN state.npc_locations
           \/ move.to_location # state.npc_locations[move.npc_id]
     THEN Penalty(-250, Append(tags, "role"))
     ELSE Penalty(0, tags)

InTags(tags, tag) == \E i \in DOMAIN tags : tags[i] = tag

RefusalReason(npc, risk_tags, role_tags) ==
  IF InTags(role_tags, "role") THEN "Refused: guarding their post"
  ELSE IF InTags(risk_tags, "risk") THEN "Refused: too risky"
  ELSE IF npc.disposition_to_player <= -2 THEN "Refused: doesn't trust the player"
  ELSE IF npc.stubbornness >= 7 THEN "Refused: too stubborn"
  ELSE "Refused: unwilling to comply"

DecisionScoreRewardingStubbornness(move, state, world, npc) ==
  Clamp(500 + 35 * npc.obedience_level + 35 * npc.stubbornness
            + 10 * npc.disposition_to_player
            + RiskAlignmentPenalty(npc, world, move.to_location).amount
            + RoleConstraintsPenalty(npc, state, move).amount,
        0, 1000)

\* the score of decide_npc_move before it is compared with the threshold
DecisionScore(move, state, world, npc) ==
  Clamp(500 + 35 * npc.obedience_level - 35 * npc.stubbornness
            + 10 * npc.disposition_to_player
            + RiskAlignmentPenalty(npc, world, move.to_location).amount
            + RoleConstraintsPenalty(npc, state, move).amount,
        0, 1000)

RefusalTags(npc, risk_tags, role_tags) ==
  LET tags == (IF npc.stubbornness >= 7 THEN <<"stubbornness">> ELSE <<>>)
              \o risk_tags \o role_tags
              \o (IF npc.disposition_to_player <= -2 THEN <<"disposition">> ELSE <<>>)
  IN IF tags = <<>> THEN <<"low_compliance">> ELSE tags

decide_npc_move(move, state, world, player_text) ==
  IF move.npc_id \notin DOMAIN world.npcs
  THEN [allowed |-> FALSE, reason |-> "unknown npc", tags |-> <<"unknown_npc">>]
  ELSE IF DecisionScore(move, state, world, world.npcs[move.npc_id])
            >= BaseThreshold(player_text)
  THEN [allowed |-> TRUE, reason |-> "ok", tags |-> <<>>]
  ELSE [allowed |-> FALSE,
        reason |-> RefusalReason(world.npcs[move.npc_id],
                     RiskAlignmentPenalty(world.npcs[move.npc_id], world, move.to_location).tags,
                     RoleConstraintsPenalty(world.npcs[move.npc_id], state, move).tags),
        tags |-> RefusalTags(world.npcs[move.npc_id],
                     RiskAlignmentPenalty(world.npcs[move.npc_id], world, move.to_location).tags,
                     RoleConstraintsPenalty(world.npcs[move.npc_id], state, move).tags)]

NpcAcceptsInText(text) ==
  \E cue \in {"let's go", "i will go", "sure", "okay", "alright"} : TextContains(text, cue)

NpcRefusesInText(text) ==
  \E cue \in {"not going", "can't", "cannot", "won't", "refuse", "decline"} :
    TextContains(text, cue)

\* npc_texts: the lines of the NPC this turn, each the set of its cues
NpcAcceptsMove(move, state, world, player_text, npc_texts) ==
  LET combined == UNION {npc_texts[i] : i \in DOMAIN npc_texts}
      dest_names == {move.to_location} \cup
                    (IF move.to_location \in world.locations
                     THEN {WorldLocationName(move.to_location)} ELSE {})
  IN /\ npc_texts # <<>>
     /\ combined # {}
     /\ ~NpcRefusesInText(combined)
     /\ \/ \E name \in dest_names : name # "" /\ TextContains(combined, name)
        \/ \E name \in dest_names : name # "" /\ PlayerTextContains(player_text, name)
     /\ NpcAcceptsInText(combined)

MoveRefused(move, decision) ==
  [type |-> "move_refused", npc_id |-> move.npc_id, from_location |-> move.from_location,
   to_location |-> move.to_location, reason |-> decision.reason, tags |-> decision.tags]

RECURSIVE GateLoop(_, _, _, _, _, _, _)
GateLoop(moves, allowed, events, state, world, player_text, npc_dialogue_by_id) ==
  IF moves = <<>> THEN [allowed |-> allowed, events |-> events]
  ELSE LET Decided(move, accepts, decision) ==
             IF accepts \/ decision.allowed
             THEN GateLoop(Tail(moves), Append(allowed, move), events, state, world,
                           player_text, npc_dialogue_by_id)
             ELSE GateLoop(Tail(moves), allowed, Append(events, MoveRefused(move, decision)),
                           state, world, player_text, npc_dialogue_by_id)
       IN Decided(Head(moves),
                  NpcAcceptsMove(Head(moves), state, world, player_text,
                                 IF Head(moves).npc_id \in DOMAIN npc_dialogue_by_id
                                 THEN npc_dialogue_by_id[Head(moves).npc_id] ELSE <<>>),
                  decide_npc_move(Head(moves), state, world, player_text))

apply_agency_gate(moves, state, world, player_text, npc_dialogue_by_id) ==
  GateLoop(moves, <<>>, <<>>, state, world, player_text, npc_dialogue_by_id)

\* ------------------------------------------------ NPCs and what is said
\* the levels are such that the score in thousandths is on the same side of
\* the threshold as the floating point score of decide_npc_move
AgencyProfiles ==
  {NPCProfile(obedience_level, stubbornness, risk_tolerance, disposition_to_player,
              traits, goals) :
     obedience_level \in {1, 5, 8},
     stubbornness \in {1, 5, 9},
     risk_tolerance \in {2, 5, 8},
     disposition_to_player \in {-3, 0, 2},
     traits \in {{"brave"}, {"cautious"}},
     goals \in {{"deliver messages"}, {"keep shop"}}}

AgencyWorlds ==
  {WorldSpec(Roads({"forest", "cave"}, {"town"}, {"town"}),
             [n \in NpcIds |-> IF n = "npc_a" THEN npc ELSE CourierProfile]) :
     npc \in AgencyProfiles}

\* what npc_a says this turn
AgencyLines ==
  {<<>>, <<{"sure"}>>, <<{"sure", "cave"}>>, <<{"sure", "cave"}, {"can't"}>>, <<{"can't"}>>}

AgencyDialogues == {[n \in {"npc_a"} |-> lines] : lines \in AgencyLines \ {<<>>}}
                   \cup {[n \in {} |-> <<>>]}

AgencyMoves ==
  {NPCMove(npc_id, "town", to_location) :
     npc_id \in NpcIds \cup {"npc_x"}, to_location \in MoveLocations \cup {NoLocation}}

AgencyMoveLists ==
  {<<NPCMove("npc_a", "town", to_location)>> : to_location \in MoveLocations}
  \cup {<<NPCMove("npc_b", "town", "cave"), NPCMove("npc_a", "town", to_location)>> :
          to_location \in {"cave"}}

\* ------------------------------------------------------------- run_turn
\* the destination a coercive player names: the first location of the world
\* that the text mentions (the texts here mention one location at most)
InferDestinationFromText(player_text, world) ==
  LET named == {l \in world.locations : PlayerTextContains(player_text, l)}
  IN IF named = {} THEN NoValue ELSE CHOOSE l \in named : TRUE

InjectForcedMoveIfMissing(state, world, player_text, npc_id, output) ==
  LET destination == InferDestinationFromText(player_text, world)
      current == IF npc_id \in DOMAIN state.npc_locations
                 THEN state.npc_locations[npc_id] ELSE NoValue
  IN IF ~IsCoerciveText(player_text) THEN output
     ELSE IF \E i \in DOMAIN output.npc_moves : output.npc_moves[i].npc_id = npc_id
     THEN output
     ELSE IF destination = NoValue \/ current = NoValue \/ destination = current THEN output
     ELSE [output EXCEPT !.npc_moves = Append(@, NPCMove(npc_id, current, destination))]

NormalizeMove(move, state, player_text) ==
  IF move.npc_id \notin DOMAIN state.npc_locations THEN move
  ELSE IF move.from_location = state.npc_locations[move.npc_id] THEN move
  ELSE IF IsCoerciveText(player_text)
  THEN [move EXCEPT !.from_location = state.npc_locations[move.npc_id]]
  ELSE move

\* the lines that say something, by the NPC that says them
DialogueById(npc_dialogue) ==
  LET spoken == SelectSeq(npc_dialogue, LAMBDA line : line.text # {})
  IN [n \in {spoken[i].npc_id : i \in DOMAIN spoken} |->
        LET own == SelectSeq(spoken, LAMBDA line : line.npc_id = n)
        IN [i \in DOMAIN own |-> own[i].text]]

\* the moves the gate allowed, written to npc_locations one after another
RECURSIVE CommitAllowedMoves(_, _)
CommitAllowedMoves(allowed_moves, updated_state) ==
  IF allowed_moves = <<>> THEN updated_state
  ELSE CommitAllowedMoves(Tail(allowed_moves),
                          [updated_state EXCEPT
                             !.npc_locations = Put(@, Head(allowed_moves).npc_id,
                                                   Head(allowed_moves).to_location)])

\* the moves of a turn, each normalised and validated against the state that
\* apply_turn_output returned: the legal ones and an event for each other
\* a loop that drops the moves that fail and records no event for them
RECURSIVE TurnMovesLoopSilent(_, _, _, _, _, _)
TurnMovesLoopSilent(npc_moves, legal_moves, move_rejections, state_non_move, world, player_text) ==
  IF npc_moves = <<>> THEN [legal_moves |-> legal_moves, move_rejections |-> move_rejections]
  ELSE LET Normalized(move) ==
             TurnMovesLoopSilent(Tail(npc_moves),
                                 IF validate_npc_move(move, state_non_move, world).ok
                                 THEN Append(legal_moves, move) ELSE legal_moves,
                                 move_rejections, state_non_move, world, player_text)
       IN Normalized(NormalizeMove(Head(npc_moves), state_non_move, player_text))

RECURSIVE TurnMovesLoop(_, _, _, _, _, _)
TurnMovesLoop(npc_moves, legal_moves, move_rejections, state_non_move, world, player_text) ==
  IF npc_moves = <<>> THEN [legal_moves |-> legal_moves, move_rejections |-> move_rejections]
  ELSE LET Checked(move, verdict) ==
             IF verdict.ok
             THEN TurnMovesLoop(Tail(npc_moves), Append(legal_moves, move), move_rejections,
                                state_non_move, world, player_text)
             ELSE TurnMovesLoop(Tail(npc_moves), legal_moves,
                                Append(move_rejections, MoveRejected(move, verdict.reason)),
                                state_non_move, world, player_text)
           Normalized(move) == Checked(move, validate_npc_move(move, state_non_move, world))
       IN Normalized(NormalizeMove(Head(npc_moves), state_non_move, player_text))

\* reply: <<kind, world_updates, npc_dialogue>> of the turn's output
run_turn(state, world, snapshot, turn_log, player_text, npc_id, reply, io) ==
  LET Marked(state_non_move) ==
        [state_non_move EXCEPT
           !.flags = [f \in DOMAIN @
                             \cup {MetFlag(npc_id)}
                             \cup (IF IsCoerciveText(player_text)
                                   THEN {CoercionFlag(npc_id)} ELSE {})
                        |-> IF f \in {MetFlag(npc_id), CoercionFlag(npc_id)} THEN TRUE
                            ELSE @[f]]]
      Written(updated_state, npc_moves, move_rejections, move_refusals) ==
        LET log_record ==
              [turn_index |-> updated_state.last_turn_id, npc_id |-> npc_id,
               location_id |-> updated_state.player_location,
               npc_moves |-> npc_moves,
               move_rejections |-> move_rejections,
               move_refusals |-> move_refusals,
               move_applied_count |->
                 Max(0, Len(npc_moves) - Len(move_rejections) - Len(move_refusals)),
               move_rejected_count |-> Len(move_rejections),
               move_refused_count |-> Len(move_refusals)]
        IN IF ~ValidState(updated_state) THEN TurnFailure(state, snapshot, turn_log)
           ELSE IF io = "log_write" THEN TurnFailure(state, snapshot, turn_log)
           ELSE IF io = "state_write"
           THEN TurnFailure(state, snapshot, Append(turn_log, log_record))
           ELSE [failed |-> FALSE, state |-> updated_state, snapshot |-> updated_state,
                 turn_log |-> Append(turn_log, log_record)]
      Gated(state_non_move, npc_moves, checked) ==
        LET gate == apply_agency_gate(checked.legal_moves, state_non_move, world, player_text,
                                      DialogueById(reply[3]))
        IN Written(Marked(CommitAllowedMoves(gate.allowed, state_non_move)),
                   npc_moves, checked.move_rejections, gate.events)
      Applied(applied, npc_moves) ==
        IF ~applied.ok THEN TurnFailure(state, snapshot, turn_log)
        ELSE Gated(applied.state, npc_moves,
                   TurnMovesLoop(npc_moves, <<>>, <<>>, applied.state, world, player_text))
      Injected(output) == Applied(apply_turn_output(state, output, npc_id), output.npc_moves)
  IN IF reply[1] \in {"llm_error", "invalid"} THEN TurnFailure(state, snapshot, turn_log)
     ELSE Injected(InjectForcedMoveIfMissing(state, world, player_text, npc_id, reply[2]))

\* ------------------------------------------------------------ state machine
\* state: the GameState the session holds.
\* granted: for each side quest of the world, how many deliveries so far have
\* added its reward_items to the inventory (history, not part of GameState).
\* snapshot: the GameState in the session's state.json.
\* turn_log: the records of the session's turns.jsonl.
\* turn: the position and the locals of the run_turn call in progress, and what
\* the call has done so far.
\* world: the WorldSpec of the session.
VARIABLES state, granted, snapshot, turn_log, turn, world

vars == <<state, granted, snapshot, turn_log, turn, world, moved>>

WithinBounds(s) ==
  /\ s.last_turn_id <= MaxTurns
  /\ \A k \in DOMAIN s.inventory : s.inventory[k] <= MaxCount

NothingGranted == [q \in WorldSideIds |-> 0]

\* the quests a delivery rewarded: it names each quest it completed in a notice
Rewarded(notices) == {notices[i] : i \in DOMAIN notices}

Init ==
  /\ state = InitializeGameState
  /\ granted = NothingGranted
  /\ snapshot = InitializeGameState
  /\ turn_log = <<>>
  /\ turn = IdleTurn
  /\ world = SessionWorld
  /\ moved = NotMoved

ApplyTurnOutput ==
  \E input \in TurnInputs :
  \E r \in {apply_turn_output(state, input[1], input[2])} :
    /\ r.ok
    /\ WithinBounds(r.state)
    /\ state' = r.state
    /\ UNCHANGED <<granted, snapshot, turn_log, turn, world, moved>>

DeliverItemsToNpc ==
  \E site \in DeliverySites, handover \in Handovers :
  \E r \in {deliver_items_to_npc(state, site[1], site[2], handover)} :
    /\ WithinBounds(r.state)
    /\ state' = r.state
    /\ granted' = [q \in DOMAIN granted |->
                     IF q \in Rewarded(r.notices) THEN granted[q] + 1 ELSE granted[q]]
    /\ UNCHANGED <<snapshot, turn_log, turn, world, moved>>

SyncQuestJournal ==
  /\ state' = sync_quest_journal(state)
  /\ UNCHANGED <<granted, snapshot, turn_log, turn, world, moved>>

ResolveMainTrial ==
  \E passed \in BOOLEAN :
    /\ state' = resolve_main_trial(state, passed)
    /\ UNCHANGED <<granted, snapshot, turn_log, turn, world, moved>>

Next == ApplyTurnOutput \/ DeliverItemsToNpc \/ SyncQuestJournal \/ ResolveMainTrial

Spec == Init /\ [][Next]_vars

\* ------------------------------------------------- any valid GameState
\* GameStates as the GameState model accepts them from a constructor call or a
\* save file: the world of InitializeGameState with any inventory, any status
\* and collected amount of a side quest, a main entry with or without required
\* items, and either value of the trial flag.
ValidGameStates ==
  {[InitializeGameState EXCEPT
      !.inventory = Bag(have[1], have[2], have[3]),
      !.flags = IF passed THEN One(PassedFlag(MainId), TRUE) ELSE NoFlags,
      !.quests = [@ EXCEPT ![SideId] = side[1], ![MainId] = main[1]],
      !.quest_journal =
         [@ EXCEPT ![SideId].status = side[1],
                   ![SideId].collected_items = One("ration", side[2]),
                   ![MainId].status = main[1],
                   ![MainId].required_items = main[2],
                   ![MainId].collected_items = [k \in DOMAIN main[2] |-> 0]]] :
     have \in (0 .. MaxCount) \X (0 .. 1) \X (0 .. 1),
     passed \in BOOLEAN,
     side \in Statuses \X (0 .. 2),
     main \in {"active", "completed"} \X {EmptyMap, One("token", 1)}}

InitValid ==
  /\ state \in ValidGameStates
  /\ granted = NothingGranted
  /\ snapshot = state
  /\ turn_log = <<>>
  /\ turn = IdleTurn
  /\ world = SessionWorld
  /\ moved = NotMoved

NextValid == SyncQuestJournal \/ ResolveMainTrial

SpecValid == InitValid /\ [][NextValid]_vars

\* --------------------------------------------- sessions that start with items
\* GameStates whose inventory counts are all positive: the initial GameState
\* with rations or with a token, and the same as a save file may hold them,
\* the side quest's journal entry naming a reward of no token at all
InventoryStates ==
  {[InitializeGameState EXCEPT !.inventory = inventory,
                               !.quest_journal[SideId].reward_items = reward_items] :
     inventory \in {One("ration", MaxCount), One("token", 1)},
     reward_items \in {InitializeGameState.quest_journal[SideId].reward_items,
                       One("token", 0)}}

InitInventory ==
  /\ state \in InventoryStates
  /\ granted = NothingGranted
  /\ snapshot = state
  /\ turn_log = <<>>
  /\ turn = IdleTurn
  /\ world = SessionWorld
  /\ moved = NotMoved

SpecInventory == InitInventory /\ [][Next]_vars

\* --------------------------------------- turns that redefine a world quest
\* a quest update that supplies its own title, category, objective, required
\* and reward items for a quest
RedefiningUpdate(quest_id, status) ==
  [Update(quest_id, status, Text("llm_guidance", {"token"}), EmptyMap, One("token", 2))
     EXCEPT !.title = Text("llm_title", {"token"}),
            !.objective = Text("llm_objective", {"token"}),
            !.reward_items = One("ration", 1)]

RedefiningOutputs ==
  {Output(NoFlags, NoStatuses, EmptyMap, <<RedefiningUpdate(quest_id, status)>>, NoValue) :
     quest_id \in {SideId, MainId}, status \in {NoValue, "failed"}}

ApplyRedefiningTurnOutput ==
  \E output \in RedefiningOutputs :
  \E r \in {apply_turn_output(state, output, "npc_a")} :
    /\ r.ok
    /\ WithinBounds(r.state)
    /\ state' = r.state
    /\ UNCHANGED <<granted, snapshot, turn_log, turn, world, moved>>

\* the initial GameState, and GameStates as a save file may hold them: with a
\* journal entry whose items are not those of the world's definition
DefinitionStates ==
  {InitializeGameState,
   [InitializeGameState EXCEPT !.quest_journal[SideId].required_items = One("ration", 1),
                               !.quest_journal[SideId].collected_items = One("ration", 1)],
   [InitializeGameState EXCEPT !.quest_journal[SideId].reward_items = One("ration", 1)],
   [InitializeGameState EXCEPT !.quest_journal[MainId].required_items = EmptyMap,
                               !.quest_journal[MainId].collected_items = EmptyMap]}

InitDefinitions ==
  /\ state \in DefinitionStates
  /\ granted = NothingGranted
  /\ snapshot = state
  /\ turn_log = <<>>
  /\ turn = IdleTurn
  /\ world = SessionWorld
  /\ moved = NotMoved

NextDefinitions == Next \/ ApplyRedefiningTurnOutput

SpecDefinitions == InitDefinitions /\ [][NextDefinitions]_vars

\* ------------------------------------------------------ turns of a session
PlayerTexts == {"hello", "force you", "force you to town"}

\* world updates that ask NPCs to move: to a neighbour, to no location, from
\* where the NPC is not, and with the item of the main quest in the same turn
NpcMoveOutputs ==
  {[NoOutput EXCEPT !.npc_moves = <<move>>] :
     move \in {NPCMove("npc_a", "forest", "town"), NPCMove("npc_a", "town", "forest"),
               NPCMove("npc_a", "town", "town"),
               NPCMove("npc_b", "town", "forest"), NPCMove("npc_a", "forest", "nowhere")}}
  \cup {[Output(NoFlags, NoStatuses, One("token", 1), <<>>, NoValue)
           EXCEPT !.npc_moves = <<NPCMove("npc_a", "forest", "town")>>]}

TurnDialogues ==
  {<<>>, <<DialogueLine("npc_a", {"sure", "town"})>>, <<DialogueLine("npc_a", {"can't"})>>}

TurnReplies ==
  {<<"llm_error", NoOutput, <<>>>>, <<"invalid", NoOutput, <<>>>>}
  \cup {<<"output", o, <<>>>> : o \in InventoryOutputs \cup FlagOutputs \cup MoveOutputs}

\* two moves of one NPC in a turn: the second from where the first leads, and
\* the second to no location
TwoMoveOutputs ==
  {[NoOutput EXCEPT !.npc_moves = <<NPCMove("npc_a", "forest", "town"),
                                    NPCMove("npc_a", "town", "forest")>>],
   [NoOutput EXCEPT !.npc_moves = <<NPCMove("npc_b", "town", "forest"),
                                    NPCMove("npc_b", "town", "nowhere")>>]}

MoveTurnReplies ==
  {<<"output", o, npc_dialogue>> :
     o \in NpcMoveOutputs \cup TwoMoveOutputs, npc_dialogue \in TurnDialogues}

WriteOutcomes == {"ok", "log_write", "state_write"}

\* the session holds the state run_turn returned, or the one it had when
\* run_turn raised
RunTurn ==
  \E player_text \in PlayerTexts, npc_id \in NpcIds, reply \in TurnReplies, io \in WriteOutcomes :
  \E r \in {run_turn(state, world, snapshot, turn_log, player_text, npc_id, reply, io)} :
    /\ WithinBounds(r.state)
    /\ Len(r.turn_log) <= MaxTurns
    /\ state' = r.state
    /\ snapshot' = r.snapshot
    /\ turn_log' = r.turn_log
    /\ UNCHANGED <<granted, turn, world, moved>>

SpecTurn == Init /\ [][RunTurn]_vars

\* ------------------------------------------------- turns that move NPCs
\* a courier who goes where asked and a shopkeeper who does not
ShopkeeperProfile == NPCProfile(1, 9, 2, -3, {"cautious"}, {"keep shop"})

\* the two locations with roads both ways, one way, or none, and npc_a a
\* courier or a shopkeeper
TurnWorlds ==
  {[WorldSpec(connected_to, [n \in NpcIds |-> IF n = "npc_a" THEN npc ELSE CourierProfile])
      EXCEPT !.locations = LocationIds] :
     connected_to \in {[l \in LocationIds |-> LocationIds \ {l}],
                       [l \in LocationIds |-> IF l = "town" THEN {"forest"} ELSE {}],
                       [l \in LocationIds |-> IF l = "forest" THEN {"town"} ELSE {}],
                       [l \in LocationIds |-> {}]},
     npc \in {CourierProfile, ShopkeeperProfile}}

InitTurnMoves ==
  /\ state = InitializeGameState
  /\ granted = NothingGranted
  /\ snapshot = InitializeGameState
  /\ turn_log = <<>>
  /\ turn = IdleTurn
  /\ world \in TurnWorlds
  /\ moved = NotMoved

RunTurnMoves ==
  /\ state.last_turn_id < MaxSessionTurns
  /\ Len(turn_log) < MaxSessionTurns
  /\ \E player_text \in PlayerTexts, npc_id \in NpcIds, reply \in MoveTurnReplies,
        io \in WriteOutcomes :
     \E r \in {run_turn(state, world, snapshot, turn_log, player_text, npc_id, reply, io)} :
       /\ WithinBounds(r.state)
       /\ Len(r.turn_log) <= MaxTurns
       /\ state' = r.state
       /\ snapshot' = r.snapshot
       /\ turn_log' = r.turn_log
  /\ UNCHANGED <<granted, turn, world, moved>>

SpecTurnMoves == InitTurnMoves /\ [][RunTurnMoves]_vars

\* ------------------------------------------------- the steps of run_turn
TurnRequest ==
  /\ turn.pc = "idle"
  /\ state.last_turn_id < MaxGuardedTurns
  /\ Len(turn_log) < MaxGuardedTurns
  /\ \E player_text \in GuardPlayerTexts, npc_id \in NpcIds, reply \in GuardReplies :
       turn' = Requested(player_text, npc_id, reply)
  /\ UNCHANGED <<state, granted, snapshot, turn_log, world, moved>>

AnachronismGuard ==
  /\ turn.pc = "anachronism"
  /\ \E reply \in GuardReplies :
       turn' = Guarded(turn, "anachronism", "dialogue",
                       EnforceNoFirstMention(world, turn.player_text, turn.output, reply), reply)
  /\ UNCHANGED <<state, granted, snapshot, turn_log, world, moved>>

EnsureDialogue ==
  /\ turn.pc = "dialogue"
  /\ turn' = [turn EXCEPT !.pc = "identity",
                          !.output = EnsureNpcDialogue(@, turn.npc_id)]
  /\ UNCHANGED <<state, granted, snapshot, turn_log, world, moved>>

IdentityGuard ==
  /\ turn.pc = "identity"
  /\ \E reply \in GuardReplies :
       turn' = Guarded(turn, "identity", "roster",
                       EnforceIdentityClaims(turn.output, turn.npc_id, reply), reply)
  /\ UNCHANGED <<state, granted, snapshot, turn_log, world, moved>>

RosterGuard ==
  /\ turn.pc = "roster"
  /\ \E reply \in GuardReplies :
       turn' = Guarded(turn, "roster", "quest_grounding",
                       EnforceWorldRoster(turn.output, turn.npc_id, reply), reply)
  /\ UNCHANGED <<state, granted, snapshot, turn_log, world, moved>>

QuestGroundingGuard ==
  /\ turn.pc = "quest_grounding"
  /\ \E reply \in GuardReplies :
       turn' = Guarded(turn, "quest_grounding", "commit",
                       EnforceQuestGrounding(state, turn.player_text, turn.output,
                                             turn.npc_id, reply), reply)
  /\ UNCHANGED <<state, granted, snapshot, turn_log, world, moved>>

CommitTurn ==
  /\ turn.pc = "commit"
  /\ \E io \in WriteOutcomes :
     \E r \in {run_turn(state, world, snapshot, turn_log, turn.player_text, turn.npc_id,
                        <<"output", turn.output.world_updates, turn.output.npc_dialogue>>,
                        io)} :
       /\ state' = r.state
       /\ snapshot' = r.snapshot
       /\ turn_log' = r.turn_log
       /\ turn' = [turn EXCEPT !.pc = "idle",
                               !.outcome = IF r.failed THEN "failed" ELSE "committed"]
  /\ UNCHANGED <<granted, world, moved>>

NextGuards ==
  \/ TurnRequest
  \/ AnachronismGuard
  \/ EnsureDialogue
  \/ IdentityGuard
  \/ RosterGuard
  \/ QuestGroundingGuard
  \/ CommitTurn

SpecGuards == Init /\ [][NextGuards]_vars

\* ------------------------------------------- guarded turns, by tech level
ModernWorld == [SessionWorld EXCEPT !.tech_level = "modern"]

InitTechLevels ==
  /\ state = InitializeGameState
  /\ granted = NothingGranted
  /\ snapshot = InitializeGameState
  /\ turn_log = <<>>
  /\ turn = IdleTurn
  /\ world \in {SessionWorld, ModernWorld}
  /\ moved = NotMoved

SpecTechLevels == InitTechLevels /\ [][NextGuards]_vars

\* ------------------------------------------------------- moving the NPCs
InitMoves ==
  /\ world \in MoveWorlds
  /\ state \in {[InitializeGameState EXCEPT !.npc_locations = npc_locations] :
                   npc_locations \in [NpcIds -> MoveLocations]}
  /\ granted = NothingGranted
  /\ snapshot = state
  /\ turn_log = <<>>
  /\ turn = IdleTurn
  /\ moved = NotMoved

ValidateNpcMove ==
  /\ moved.calls < MaxMoveCalls
  /\ \E move \in Moves :
       moved' = [NotMoved EXCEPT !.op = "validate", !.calls = moved.calls + 1,
                                !.moves = <<move>>, !.before = state, !.input = state,
                                !.verdict = validate_npc_move(move, state, world)]
  /\ UNCHANGED <<state, granted, snapshot, turn_log, turn, world>>

ApplyValidatedMoves ==
  /\ moved.calls < MaxMoveCalls
  /\ \E moves \in MoveLists :
     \E r \in {apply_validated_moves(moves, state, world)} :
       /\ r.ok
       /\ state' = r.state
       /\ moved' = [NotMoved EXCEPT !.op = "apply", !.calls = moved.calls + 1,
                                    !.moves = moves, !.before = state,
                                    !.input = r.input, !.events = r.events]
  /\ UNCHANGED <<granted, snapshot, turn_log, turn, world>>

\* every world of three locations whose roads lead to locations or nowhere
GraphWorlds ==
  {WorldSpec(connected_to, [n \in NpcIds |-> CourierProfile]) :
     connected_to \in [MoveLocations -> SUBSET (MoveLocations \cup {NoLocation})]}

InitGraphs ==
  /\ world \in GraphWorlds
  /\ state = InitializeGameState
  /\ granted = NothingGranted
  /\ snapshot = state
  /\ turn_log = <<>>
  /\ turn = IdleTurn
  /\ moved = NotMoved

IsReachable ==
  /\ moved.calls < MaxMoveCalls
  /\ \E start \in MoveLocations \cup {NoLocation}, goal \in MoveLocations \cup {NoLocation} :
       moved' = [NotMoved EXCEPT
                   !.op = "reach", !.calls = moved.calls + 1,
                   !.moves = <<NPCMove("npc_a", start, goal)>>,
                   !.verdict = Verdict(is_reachable(build_graph(world), start, goal), <<>>)]
  /\ UNCHANGED <<state, granted, snapshot, turn_log, turn, world>>

SpecGraphs == InitGraphs /\ [][IsReachable]_vars

NextMoves == ValidateNpcMove \/ ApplyValidatedMoves

SpecMoves == InitMoves /\ [][NextMoves]_vars

\* ------------------------------------- every operation that returns a state
\* a session in which turns are run, items delivered, the journal synced, the
\* trial resolved and NPCs moved, in any order
SessionMoveLists ==
  {<<NPCMove("npc_a", "forest", "town")>>,
   <<NPCMove("npc_b", "town", "forest"), NPCMove("npc_b", "forest", "town")>>,
   <<NPCMove("npc_a", "forest", "nowhere"), NPCMove("npc_b", "town", "forest")>>,
   <<NPCMove("npc_x", "town", "forest")>>}

MoveNpcs ==
  \E moves \in SessionMoveLists :
  \E r \in {apply_validated_moves(moves, state, world)} :
    /\ r.ok
    /\ state' = r.state
    /\ UNCHANGED <<granted, snapshot, turn_log, turn, world, moved>>

\* the turns of the session, MaxSessionTurns of them at most
SessionOutput == state.last_turn_id < MaxSessionTurns /\ ApplyTurnOutput

NextSession ==
  \/ RunTurnMoves
  \/ SessionOutput
  \/ DeliverItemsToNpc
  \/ SyncQuestJournal
  \/ ResolveMainTrial
  \/ MoveNpcs

SpecSession == Init /\ [][NextSession]_vars

\* ------------------------------------------------- the forced context pack
\* A document is its id and the timestamp of its metadata; the id is made of
\* the session, doc_type, NPC, location and turn of the metadata and a digest
\* of the text, so that two documents may share an id.
Doc(id, timestamp) == [id |-> id, timestamp |-> timestamp]

DocIdsOf(docs) == {docs[i].id : i \in DOMAIN docs}

\* documents that keep everything they are given
DedupeNothing(docs) == docs

RECURSIVE DedupeLoop(_, _, _)
DedupeLoop(docs, seen, result) ==
  IF docs = <<>> THEN result
  ELSE IF Head(docs).id \in seen THEN DedupeLoop(Tail(docs), seen, result)
  ELSE DedupeLoop(Tail(docs), seen \cup {Head(docs).id}, Append(result, Head(docs)))

Dedupe(docs) == DedupeLoop(docs, {}, <<>>)

\* a loop that takes the documents of a batch whether seen or not
RECURSIVE RetrieveBatchSeenOrNot(_, _, _, _)
RetrieveBatchSeenOrNot(batch, results, seen, top_k) ==
  IF batch = <<>> THEN [results |-> results, seen |-> seen]
  ELSE IF Len(results) + 1 >= top_k
  THEN [results |-> Append(results, Head(batch)), seen |-> seen \cup {Head(batch).id}]
  ELSE RetrieveBatchSeenOrNot(Tail(batch), Append(results, Head(batch)),
                              seen \cup {Head(batch).id}, top_k)

\* the loop over the documents of one tier's batch
RECURSIVE RetrieveBatch(_, _, _, _)
RetrieveBatch(batch, results, seen, top_k) ==
  IF batch = <<>> THEN [results |-> results, seen |-> seen]
  ELSE IF Head(batch).id \in seen THEN RetrieveBatch(Tail(batch), results, seen, top_k)
  ELSE IF Len(results) + 1 >= top_k
  THEN [results |-> Append(results, Head(batch)), seen |-> seen \cup {Head(batch).id}]
  ELSE RetrieveBatch(Tail(batch), Append(results, Head(batch)),
                     seen \cup {Head(batch).id}, top_k)

\* the loop over the tiers; batches[i] is what the store answers for tier i,
\* counts the number of documents collected after each tier that was asked
RECURSIVE RetrieveTiers(_, _, _, _, _)
RetrieveTiers(batches, results, seen, top_k, counts) ==
  IF batches = <<>> \/ Len(results) >= top_k THEN [results |-> results, counts |-> counts]
  ELSE LET r == RetrieveBatch(Head(batches), results, seen, top_k)
       IN RetrieveTiers(Tail(batches), r.results, r.seen, top_k,
                        Append(counts, Len(r.results)))

\* the store is asked once for each tier: three tiers with an NPC, two without
RetrieveWithFallbacks(npc_id, batches, top_k) ==
  RetrieveTiers(IF npc_id # NoValue THEN batches ELSE Tail(batches), <<>>, {}, top_k, <<>>)

get_forced_context_pack(world_doc, location_doc, npc_id, npc_doc, npc_memory_docs, summary_docs, batches, top_k) ==
  LET listed == <<world_doc, location_doc>>
                \o (IF npc_id # NoValue THEN <<npc_doc>> \o npc_memory_docs ELSE <<>>)
                \o summary_docs
      found == RetrieveWithFallbacks(npc_id, batches, top_k).results
      always_include == Dedupe(listed)
      retrieved == Dedupe(SelectSeq(found, LAMBDA doc : doc.id \notin DocIdsOf(always_include)))
  IN [listed |-> listed, found |-> found,
      always_include |-> always_include, retrieved |-> retrieved]

WorldDoc == Doc("sess:world", 0)

LocationDoc == Doc("sess:location:town", 0)

NpcDoc == Doc("sess:npc_profile:npc_a", 0)

\* the memories of the turns with npc_a, last first or not, two of them of
\* turns with the same turn index and text
NpcMemoryLists ==
  {<<>>, <<Doc("sess:memory:1", 1)>>,
   <<Doc("sess:memory:1", 1), Doc("sess:memory:1", 2)>>,
   <<Doc("sess:memory:1", 1), Doc("sess:memory:2", 3)>>}

SummaryLists ==
  {<<>>, <<Doc("sess:summary:1", 1)>>,
   <<Doc("sess:summary:1", 1), Doc("sess:summary:1", 2)>>}

\* what the store, which holds one document for an id, answers to a query
StoreBatches ==
  {<<>>, <<Doc("sess:memory:1", 1)>>,
   <<Doc("sess:memory:2", 3), Doc("sess:memory:1", 1)>>,
   <<Doc("sess:summary:1", 1), Doc("sess:memory:2", 3)>>,
   <<Doc("sess:memory:3", 4), Doc("sess:summary:1", 1)>>}

TopKs == {1, 2}

\* a turn builds its context pack
GetForcedContextPack ==
  /\ turn.pc = "idle"
  /\ \E npc_id \in {NoValue, "npc_a"}, npc_memory_docs \in NpcMemoryLists,
        summary_docs \in SummaryLists, top_k \in TopKs,
        batches \in {<<a, b, c>> : a \in StoreBatches, b \in StoreBatches, c \in StoreBatches} :
       turn' = [pc |-> "context", npc_id |-> npc_id, top_k |-> top_k,
                pack |-> get_forced_context_pack(WorldDoc, LocationDoc, npc_id, NpcDoc,
                                                 npc_memory_docs, summary_docs, batches, top_k)]
  /\ UNCHANGED <<state, granted, snapshot, turn_log, world, moved>>

SpecContext == Init /\ [][GetForcedContextPack]_vars

\* ------------------------------------------------------ ranked retrieval
\* A stored document: its id, the metadata the filters look at, its timestamp
\* (one digit, compared as a string) and the number of tokens its text shares
\* with the query of the turn.
StoredDoc(id, session_id, doc_type, npc_id, location_id, score, timestamp) ==
  [id |-> id, session_id |-> session_id, doc_type |-> doc_type, npc_id |-> npc_id,
   location_id |-> location_id, score |-> score, timestamp |-> timestamp]

Filters(session_id, npc_id, location_id) ==
  [session_id |-> session_id, npc_id |-> npc_id, location_id |-> location_id,
   doc_type |-> {"memory", "summary"}]

\* a filter whose value is None is not looked at
MatchesFilters(doc, filters) ==
  /\ doc.session_id = filters.session_id
  /\ filters.npc_id = NoValue \/ doc.npc_id = filters.npc_id
  /\ filters.location_id = NoValue \/ doc.location_id = filters.location_id
  /\ doc.doc_type \in filters.doc_type

RankedBefore(a, b) ==
  \/ a.score > b.score
  \/ a.score = b.score /\ a.timestamp < b.timestamp

\* the stable sort of scored.sort: a document goes behind those it does not
\* rank before
RECURSIVE SortDocs(_, _)
SortDocs(docs, sorted) ==
  IF docs = <<>> THEN sorted
  ELSE LET doc == Head(docs)
           ahead == SelectSeq(sorted, LAMBDA other : ~RankedBefore(doc, other))
           behind == SelectSeq(sorted, LAMBDA other : RankedBefore(doc, other))
       IN SortDocs(Tail(docs), ahead \o <<doc>> \o behind)

\* store: the documents in the order they were added
StoreQuery(store, top_k, filters) ==
  LET candidates == SelectSeq(store, LAMBDA doc : MatchesFilters(doc, filters))
      results == SelectSeq(SortDocs(candidates, <<>>), LAMBDA doc : doc.score > 0)
  IN IF candidates = <<>> \/ top_k <= 0 THEN <<>>
     ELSE SubSeq(results, 1, Min(top_k, Len(results)))

TierFilters(session_id, npc_id, location_id) ==
  <<Filters(session_id, npc_id, NoValue), Filters(session_id, NoValue, location_id),
    Filters(session_id, NoValue, NoValue)>>

StoredDocs ==
  {StoredDoc("sess:memory:npc_a:town:1", "sess", "memory", "npc_a", "town", 2, 1),
   StoredDoc("sess:memory:npc_a:forest:2", "sess", "memory", "npc_a", "forest", 1, 2),
   StoredDoc("sess:memory:npc_b:town:1", "sess", "memory", "npc_b", "town", 2, 1),
   StoredDoc("sess:summary:3", "sess", "summary", NoValue, "forest", 1, 3),
   StoredDoc("sess:memory:npc_a:town:4", "sess", "memory", "npc_a", "town", 0, 4),
   StoredDoc("other:memory:npc_a:town:1", "other", "memory", "npc_a", "town", 3, 1),
   StoredDoc("sess:world", "sess", "world", NoValue, NoValue, 3, 0)}

\* the stores of up to three documents, one document for an id
Stores ==
  {<<>>} \cup {<<a>> : a \in StoredDocs}
  \cup {docs \in StoredDocs \X StoredDocs : docs[1] # docs[2]}
  \cup {docs \in StoredDocs \X StoredDocs \X StoredDocs :
          docs[1] # docs[2] /\ docs[1] # docs[3] /\ docs[2] # docs[3]}

RetrieveTopKs == {0, 1, 2}

\* a turn at town asks for the ranked documents
Retrieve ==
  /\ turn.pc = "idle"
  /\ \E store \in Stores, npc_id \in {NoValue, "npc_a"}, top_k \in RetrieveTopKs :
     \E found \in {RetrieveWithFallbacks(npc_id,
                     [i \in 1..3 |-> StoreQuery(store, top_k,
                                                TierFilters("sess", npc_id, "town")[i])],
                     top_k)} :
       turn' = [pc |-> "retrieve", store |-> store, npc_id |-> npc_id, top_k |-> top_k,
                results |-> found.results, counts |-> found.counts]
  /\ UNCHANGED <<state, granted, snapshot, turn_log, world, moved>>

SpecRetrieve == Init /\ [][Retrieve]_vars

\* ------------------------------------------------------------ session ids
\* A session id is the sequence of its characters.
SafeChars == {"a", "Z", "7", "_", "-"}

SessionIdChars == SafeChars \cup {".", "/", "\\", " ", "\n"}

RECURSIVE SessionIdsOfLength(_)
SessionIdsOfLength(n) ==
  IF n = 0 THEN {<<>>}
  ELSE {Append(id, c) : id \in SessionIdsOfLength(n - 1), c \in SessionIdChars}

SessionIds == UNION {SessionIdsOfLength(n) : n \in 0..MaxIdLen}

\* _SAFE_SESSION_RE.match: one or more safe characters from the start, up to
\* the end of the string or up to a newline that ends the string
SafeSessionMatch(session_id) ==
  \E n \in 1..Len(session_id) :
    /\ \A i \in 1..n : session_id[i] \in SafeChars
    /\ \/ n = Len(session_id)
       \/ n = Len(session_id) - 1 /\ session_id[Len(session_id)] = "\n"

\* the error validate_session_id raises, or "ok"
validate_session_id(session_id) ==
  IF session_id = <<>> THEN "session_id must not be empty"
  ELSE IF \E i \in DOMAIN session_id : session_id[i] \in {"/", "\\"}
  THEN "session_id must not contain path separators"
  ELSE IF \E i \in 1..(Len(session_id) - 1) : session_id[i] = "." /\ session_id[i + 1] = "."
  THEN "session_id must not contain '..'"
  ELSE IF ~SafeSessionMatch(session_id) THEN "session_id contains invalid characters"
  ELSE "ok"

ValidateSessionId ==
  /\ turn.pc = "idle"
  /\ \E session_id \in SessionIds :
       turn' = [pc |-> "session_id", session_id |-> session_id,
                raised |-> validate_session_id(session_id)]
  /\ UNCHANGED <<state, granted, snapshot, turn_log, world, moved>>

SpecSessionIds == Init /\ [][ValidateSessionId]_vars

\* ------------------------------------------------- one generate_json call
\* the resends of a chat request after a timeout, a connection error or a
\* 429/5xx status: llm.max_retries, which the client raises to at least 1
MaxRetries == 1

\* the texts the model answers with: a JSON object, prose around a JSON
\* object, a JSON array, the JSON null, and text that holds no JSON
JsonTexts == {"object", "embedded", "array", "null", "garbage"}

ParsedNone == "None"

\* what json.loads, and after its failure _extract_json, make of a text
ParseJson(text) ==
  IF text \in {"object", "embedded"} THEN "dict"
  ELSE IF text = "array" THEN "list"
  ELSE ParsedNone

\* failures: the retryable failures of the request before its answer
RequestChat(failures) ==
  [answered |-> failures <= MaxRetries, sends |-> Min(failures, MaxRetries) + 1]

JsonCall(requests, sends, raised, result) ==
  [requests |-> requests, sends |-> sends, raised |-> raised, result |-> result]

\* a client that asks for a repair of the repaired text as well
GenerateJsonRepairingAgain(outputs, failures) ==
  LET first == RequestChat(failures[1])
      second == RequestChat(failures[2])
  IN IF ~first.answered THEN JsonCall(1, first.sends, "APIError", ParsedNone)
     ELSE IF Len(outputs) < 1 THEN JsonCall(1, first.sends, "RuntimeError", ParsedNone)
     ELSE IF ParseJson(outputs[1]) # ParsedNone
     THEN JsonCall(1, first.sends, "none", ParseJson(outputs[1]))
     ELSE IF ~second.answered
     THEN JsonCall(2, first.sends + second.sends, "APIError", ParsedNone)
     ELSE IF Len(outputs) < 2
     THEN JsonCall(2, first.sends + second.sends, "RuntimeError", ParsedNone)
     ELSE IF ParseJson(outputs[2]) # ParsedNone
     THEN JsonCall(2, first.sends + second.sends, "none", ParseJson(outputs[2]))
     ELSE JsonCall(3, first.sends + second.sends + 1, "ValueError", ParsedNone)

\* outputs: the answers the model has in store, in order; failures: the
\* retryable failures before the answer to the request and to the repair
generate_json(outputs, failures) ==
  LET first == RequestChat(failures[1])
      second == RequestChat(failures[2])
  IN IF ~first.answered THEN JsonCall(1, first.sends, "APIError", ParsedNone)
     ELSE IF Len(outputs) < 1 THEN JsonCall(1, first.sends, "RuntimeError", ParsedNone)
     ELSE IF ParseJson(outputs[1]) # ParsedNone
     THEN JsonCall(1, first.sends, "none", ParseJson(outputs[1]))
     ELSE IF ~second.answered
     THEN JsonCall(2, first.sends + second.sends, "APIError", ParsedNone)
     ELSE IF Len(outputs) < 2
     THEN JsonCall(2, first.sends + second.sends, "RuntimeError", ParsedNone)
     ELSE IF ParseJson(outputs[2]) # ParsedNone
     THEN JsonCall(2, first.sends + second.sends, "none", ParseJson(outputs[2]))
     ELSE JsonCall(2, first.sends + second.sends, "ValueError", ParsedNone)

\* MockLLMClient answers from a list that may run out and never fails in
\* transport; the API client always gets an answer or a transport failure
JsonClients ==
  {<<outputs, <<0, 0>>>> :
     outputs \in {<<>>} \cup {<<t>> : t \in JsonTexts}
                 \cup {<<t, u>> : t \in JsonTexts, u \in JsonTexts}}
  \cup {<<<<t, u>>, <<f, g>>>> :
          t \in JsonTexts, u \in JsonTexts,
          f \in 0..(MaxRetries + 1), g \in 0..(MaxRetries + 1)}

GenerateJson ==
  /\ turn.pc = "idle"
  /\ \E client \in JsonClients :
       turn' = [pc |-> "generate_json", outputs |-> client[1], failures |-> client[2],
                call |-> generate_json(client[1], client[2])]
  /\ UNCHANGED <<state, granted, snapshot, turn_log, world, moved>>

SpecGenerateJson == Init /\ [][GenerateJson]_vars

\* ------------------------------------------------------- the agency gate
InitAgency ==
  /\ world \in AgencyWorlds
  /\ state = [InitializeGameState EXCEPT !.npc_locations = [n \in NpcIds |-> "town"]]
  /\ granted = NothingGranted
  /\ snapshot = state
  /\ turn_log = <<>>
  /\ turn = IdleTurn
  /\ moved = NotMoved

ApplyAgencyGate ==
  /\ moved.calls < MaxMoveCalls
  /\ \E moves \in AgencyMoveLists, player_text \in AgencyPlayerTexts,
        npc_dialogue_by_id \in AgencyDialogues :
     \E r \in {apply_agency_gate(moves, state, world, player_text, npc_dialogue_by_id)} :
       moved' = [NotMoved EXCEPT !.op = "gate", !.calls = moved.calls + 1,
                                !.moves = moves, !.before = state, !.input = state,
                                !.player_text = player_text,
                                !.dialogue = npc_dialogue_by_id,
                                !.allowed = r.allowed, !.events = r.events]
  /\ UNCHANGED <<state, granted, snapshot, turn_log, turn, world>>

DecideNpcMove ==
  /\ moved.calls < MaxMoveCalls
  /\ \E move \in AgencyMoves, player_text \in AgencyPlayerTexts :
     \E decision \in {decide_npc_move(move, state, world, player_text)} :
       moved' = [NotMoved EXCEPT !.op = "decide", !.calls = moved.calls + 1,
                                !.moves = <<move>>, !.before = state, !.input = state,
                                !.player_text = player_text,
                                !.verdict = Verdict(decision.allowed, <<decision.reason>>),
                                !.events = decision.tags,
                                !.score = IF move.npc_id \in DOMAIN world.npcs
                                          THEN DecisionScore(move, state, world,
                                                             world.npcs[move.npc_id])
                                          ELSE 0]
  /\ UNCHANGED <<state, granted, snapshot, turn_log, turn, world>>

NextAgency == ApplyAgencyGate \/ DecideNpcMove

SpecAgency == InitAgency /\ [][NextAgency]_vars

\* ------------------------------------------------- decisions, call after call
\* the NPCs whose decisions are followed over several calls
DecisionProfiles ==
  {npc \in AgencyProfiles : npc.risk_tolerance = 5 /\ npc.disposition_to_player = 0}

InitDecisions ==
  /\ InitAgency
  /\ world.npcs["npc_a"] \in DecisionProfiles

\* what a decide_npc_move call was given and what it returned
DecisionOf(call) ==
  [op |-> call.op, moves |-> call.moves, input |-> call.input,
   player_text |-> call.player_text, verdict |-> call.verdict, events |-> call.events]

DecisionMoves ==
  {NPCMove("npc_a", "town", to_location) : to_location \in MoveLocations}
  \cup {NPCMove("npc_x", "town", "cave")}

DecideNpcMoveAgain ==
  /\ moved.calls < MaxDecisions
  /\ \E move \in DecisionMoves, player_text \in AgencyPlayerTexts :
     \E decision \in {decide_npc_move(move, state, world, player_text)} :
       moved' = [NotMoved EXCEPT !.op = "decide", !.calls = moved.calls + 1,
                                !.moves = <<move>>, !.before = state, !.input = state,
                                !.player_text = player_text,
                                !.verdict = Verdict(decision.allowed, <<decision.reason>>),
                                !.events = decision.tags,
                                !.previous = DecisionOf(moved)]
  /\ UNCHANGED <<state, granted, snapshot, turn_log, turn, world>>

SpecDecisions == InitDecisions /\ [][DecideNpcMoveAgain]_vars

\* ------------------------------------------------------------------ claims
\* C1 (as amended).  In every reachable state, every quest of the journal whose
\* required_items is not empty records collected amounts only for required
\* items, and never more of an item than the quest requires.
QuestInvariant ==
  \A q \in DOMAIN state.quest_journal :
    LET entry == state.quest_journal[q] IN
    DOMAIN entry.required_items # {} =>
      \A item \in DOMAIN entry.collected_items :
        /\ item \in DOMAIN entry.required_items
        /\ entry.collected_items[item] <= entry.required_items[item]

\* C1 as the claim states it: the same bound for every quest of the journal,
\* a quest without required items included.
QuestInvariantEveryQuest ==
  \A q \in DOMAIN state.quest_journal :
    LET entry == state.quest_journal[q] IN
    \A item \in DOMAIN entry.collected_items :
      /\ item \in DOMAIN entry.required_items
      /\ entry.collected_items[item] <= entry.required_items[item]

\* a delivery has filled a side quest up to exactly what it requires
QuestFilledToRequirement ==
  \E q \in DOMAIN state.quest_journal :
    LET entry == state.quest_journal[q] IN
    /\ entry.category = "side"
    /\ entry.status = "completed"
    /\ DOMAIN entry.required_items # {}
    /\ entry.collected_items = entry.required_items

\* C2.  sync_quest_journal is idempotent: applied to the state it returned,
\* it returns that state again, equal in every field.
SyncIdempotent ==
  sync_quest_journal(sync_quest_journal(state)) = sync_quest_journal(state)

\* inventory count of the item plus its collected count over all quests
ItemTotal(s, names) ==
  SumOver(s.inventory, names)
  + SumOver([q \in DOMAIN s.quest_journal |-> SumOver(s.quest_journal[q].collected_items, names)],
            DOMAIN s.quest_journal)

SameItem(item) == {k \in ItemKeys : CanonicalItemKey(k) = CanonicalItemKey(item)}

\* C3 (as amended).  For every delivery and every item named in the handover
\* that the delivery does not grant as a reward, the inventory count plus the
\* collected count over all quests, taken over the item's name and the names
\* canonically equivalent to it, is not greater after the call than before.
DeliveryConservation ==
  \A site \in DeliverySites, handover \in Handovers :
    LET r == deliver_items_to_npc(state, site[1], site[2], handover) IN
    \A item \in DOMAIN handover :
      SameItem(item) \cap DOMAIN r.rewards = {} =>
        ItemTotal(r.state, SameItem(item)) <= ItemTotal(state, SameItem(item))

\* C3 as the claim states it: the total of each item named in the handover,
\* counted under its own name, is not greater after the call than before.
DeliveryConservationPerName ==
  \A site \in DeliverySites, handover \in Handovers :
    LET r == deliver_items_to_npc(state, site[1], site[2], handover) IN
    \A item \in DOMAIN handover :
      ItemTotal(r.state, {item}) <= ItemTotal(state, {item})

\* a delivery moves items out of the inventory into a quest through an
\* equivalent name, and names an item it does not grant as a reward
DeliveryThroughEquivalentName ==
  \E site \in DeliverySites, handover \in Handovers :
    LET r == deliver_items_to_npc(state, site[1], site[2], handover) IN
    /\ "rations" \in DOMAIN r.delivered
    /\ Get(r.state.quest_journal[SideId].collected_items, "ration")
         > Get(state.quest_journal[SideId].collected_items, "ration")
    /\ SameItem("rations") \cap DOMAIN r.rewards = {}

\* C4.  Over any sequence of calls, the reward_items of a side quest are added
\* to the inventory at most once: no delivery adds them a second time.
RewardGrantedOnce == \A q \in DOMAIN granted : granted[q] <= 1

\* C5.  No delivery, to any NPC at any location with any handover, leaves a
\* main-category quest completed that was not completed before the call.
DeliveryNeverCompletesMain ==
  \A site \in DeliverySites, handover \in Handovers :
    LET r == deliver_items_to_npc(state, site[1], site[2], handover) IN
    \A q \in DOMAIN state.quest_journal :
      (/\ state.quest_journal[q].category = "main"
       /\ state.quest_journal[q].status # "completed")
      => r.state.quest_journal[q].status # "completed"

MainCompleted(s) ==
  /\ s.main_quest_id \in DOMAIN s.quest_journal
  /\ s.quest_journal[s.main_quest_id].status = "completed"

\* C6.  resolve_main_trial(state, passed = TRUE) leaves the main quest completed
\* only if, in the state it is called on, evaluate_main_trial_readiness is true
\* and every side quest is completed; when either gate fails the main quest is
\* not completed by the call, nor by a delivery that follows the call.
TrialGated ==
  LET r == resolve_main_trial(state, TRUE) IN
  ~(evaluate_main_trial_readiness(state) /\ AllSideQuestsCompleted(state)) =>
    /\ ~MainCompleted(r)
    /\ \A site \in DeliverySites, handover \in Handovers :
         ~MainCompleted(deliver_items_to_npc(r, site[1], site[2], handover).state)

\* C7.  evaluate_main_trial_readiness is true exactly when the inventory holds
\* at least the required amount of every item the main quest requires; it is
\* true when the main quest requires no items.
ReadinessMeetsRequirements ==
  LET required == state.quest_journal[state.main_quest_id].required_items IN
  evaluate_main_trial_readiness(state)
    <=> \A item \in DOMAIN required :
          InventoryAmountForItem(state.inventory, item) >= required[item]

\* C8.  No apply_turn_output call, whatever its turn output carries, changes
\* a quest with non-empty required_items from a status other than completed
\* to completed.
TurnNeverCompletes ==
  \A input \in TurnInputs :
    LET r == apply_turn_output(state, input[1], input[2]) IN
    r.ok =>
      \A q \in DOMAIN state.quest_journal :
        (/\ DOMAIN state.quest_journal[q].required_items # {}
         /\ state.quest_journal[q].status # "completed")
        => r.state.quest_journal[q].status # "completed"

\* the turn output with every collected_items_delta removed
WithoutCollectedDelta(output) ==
  [output EXCEPT !.quest_progress_updates =
     [i \in DOMAIN @ |-> [@[i] EXCEPT !.collected_items_delta = EmptyMap]]]

\* C9.  A collected_items_delta of a dialogue turn, of either sign, never
\* changes the collected_items of a quest whose required_items is not empty:
\* apply_turn_output records for such a quest the collected amount of every
\* item that it records when the delta is absent.
TurnDeltaRejected ==
  \A input \in TurnInputs :
    LET with == apply_turn_output(state, input[1], input[2])
        without == apply_turn_output(state, WithoutCollectedDelta(input[1]), input[2])
    IN with.ok =>
         \A q \in DOMAIN with.state.quest_journal :
           DOMAIN with.state.quest_journal[q].required_items # {} =>
             \A item \in ItemKeys :
               Get(with.state.quest_journal[q].collected_items, item)
                 = Get(without.state.quest_journal[q].collected_items, item)

\* C10.  If run_turn fails at any step, the caller's GameState is unmodified,
\* no record has been appended to the turn log and the persisted snapshot is
\* unchanged; the log record and the new snapshot are written together or
\* not at all.
TurnCommitsAtomically ==
  \A player_text \in PlayerTexts, npc_id \in NpcIds, reply \in TurnReplies, io \in WriteOutcomes :
    LET r == run_turn(state, world, snapshot, turn_log, player_text, npc_id, reply, io) IN
    /\ r.failed => r.state = state /\ r.turn_log = turn_log /\ r.snapshot = snapshot
    /\ (r.turn_log # turn_log) <=> (r.snapshot # snapshot)

\* C11 (as amended).  A run_turn whose turn request gets a response that is
\* still not JSON after the one repair retry fails at that step: no guard
\* runs, and the state, the saved state and the turn log stay as they were.
UnparseableRequestFailsTurn ==
  [][(turn' # turn /\ turn'.request_kind = "unparseable")
       => /\ turn'.outcome = "failed"
          /\ turn'.pc = "idle"
          /\ turn'.json_calls = 1
          /\ UNCHANGED <<state, snapshot, turn_log>>]_vars

\* C11, witness: a turn that failed on an unparseable turn request after the
\* request and its repair retry, with nothing written.
UnparseableRequestFailed ==
  /\ turn.request_kind = "unparseable"
  /\ turn.outcome = "failed"
  /\ turn.chat_calls = 2
  /\ state = InitializeGameState
  /\ turn_log = <<>>

\* C11 (as stated).  A turn in which any response of the model was still not
\* JSON after the repair retry is never committed.
UnparseableResponseFailsTurn ==
  turn.unparseable => turn.outcome # "committed"

\* C12 (as amended).  In a run_turn every guard asks the model for at most one
\* rewrite, so the generate_json calls of a turn are at most the turn request
\* plus one per guard; each call makes at most two chat requests (its request
\* and one JSON repair), so the chat requests are at most twice the calls.
GuardRewritesBounded ==
  /\ \A g \in GuardNames : turn.rewrites[g] <= 1
  /\ \A g \in GuardNames : turn.rewrites[g] = 1 <=> g \in turn.detected
  /\ turn.json_calls <= 1 + Cardinality(GuardNames)
  /\ turn.json_calls <= 1 + Cardinality(turn.detected)
  /\ turn.chat_calls <= 2 * turn.json_calls

\* C12, witness: a turn in which every guard asked for its rewrite and every
\* call needed its JSON repair.
EveryGuardRewrote ==
  /\ turn.detected = GuardNames
  /\ turn.json_calls = 1 + Cardinality(GuardNames)
  /\ turn.chat_calls = 2 * turn.json_calls

\* C12 (as stated).  The round-trips to the model in a turn are at most one for
\* the turn request plus one per guard.
ChatRequestsBoundedByGuards ==
  turn.chat_calls <= 1 + Cardinality(GuardNames)

\* C13.  A guard that found a violation and recorded no warning hands on an
\* output that satisfies its predicate: no first-mentioned anachronism after
\* the anachronism guard, no claim to be another NPC after the identity guard,
\* no unknown role after the roster guard, and no ungrounded talk of quest
\* materials after the quest grounding guard.
RewriteAcceptedOnlyIfClean ==
  LET Silent(g) == /\ g \in turn.detected
                   /\ \A i \in DOMAIN turn.guard_warnings : turn.guard_warnings[i] # g
  IN /\ (turn.pc = "dialogue" /\ Silent("anachronism"))
          => FirstMentions(world, turn.player_text, turn.output) = {}
     /\ (turn.pc = "roster" /\ Silent("identity"))
          => ~IdentityViolation(turn.output, turn.npc_id)
     /\ (turn.pc = "quest_grounding" /\ Silent("roster"))
          => UnknownReferences(turn.output) = {}
     /\ (turn.pc = "commit" /\ Silent("quest_grounding"))
          => ~NeedsQuestRewrite(state, turn.player_text, turn.output, turn.npc_id)

\* C14.  When run_turn has returned and its audit record holds a warning of a
\* guard, the narration of the returned turn output is not empty and contains
\* the system note of that guard.
FallbackNoteInNarration ==
  (turn.pc = "idle" /\ turn.outcome = "committed")
    => \A i \in DOMAIN turn.guard_warnings :
         /\ turn.output.narration # {}
         /\ GuardNote(turn.guard_warnings[i]) \in turn.output.narration

\* C15.  apply_validated_moves handles the moves in list order: the k-th move
\* is validated against the state left by the first k-1, a passing move
\* only sets its NPC's location, a failing move only adds one move_rejected
\* event with the reason of its validation, and the state passed in is left
\* as it was.
BatchMovesInOrder ==
  moved.op = "apply" =>
    LET After(k) == apply_validated_moves(SubSeq(moved.moves, 1, k), moved.before, world)
        Accepted(s, move) == [s EXCEPT !.npc_locations = Put(@, move.npc_id, move.to_location)]
        Rejection(move, reason) ==
          [type |-> "move_rejected", npc_id |-> move.npc_id,
           from_location |-> move.from_location, to_location |-> move.to_location,
           reason |-> reason]
    IN /\ moved.input = moved.before
       /\ After(0).state = moved.before
       /\ After(0).events = <<>>
       /\ After(Len(moved.moves)).state = state
       /\ After(Len(moved.moves)).events = moved.events
       /\ \A k \in 1 .. Len(moved.moves) :
            LET move == moved.moves[k]
                verdict == validate_npc_move(move, After(k - 1).state, world)
            IN IF verdict.ok
               THEN /\ After(k).state = Accepted(After(k - 1).state, move)
                    /\ After(k).events = After(k - 1).events
               ELSE /\ After(k).state = After(k - 1).state
                    /\ After(k).events =
                         Append(After(k - 1).events, Rejection(move, verdict.reason))

\* C15, witness: a batch of two moves of one NPC, both applied, in which the
\* second move starts where the first one ended and not where the NPC was
\* when the batch was passed in.
BatchMovesChained ==
  /\ moved.op = "apply"
  /\ Len(moved.moves) = 2
  /\ moved.events = <<>>
  /\ moved.moves[1].npc_id = moved.moves[2].npc_id
  /\ moved.moves[2].from_location = moved.moves[1].to_location
  /\ moved.moves[2].from_location # moved.before.npc_locations[moved.moves[2].npc_id]
  /\ state.npc_locations[moved.moves[2].npc_id] = moved.moves[2].to_location
  /\ moved.moves[2].to_location # moved.moves[2].from_location

\* C16.  validate_npc_move reports the first check that fails, in the order:
\* NPC not in the roster, NPC without an entry in npc_locations, from_location
\* not the NPC's recorded location, to_location not a location id,
\* to_location unreachable; it returns ok exactly when none fails, and the
\* state it was given is left as it was.  Checked for the call made and for
\* the same call on the state with one NPC's entry removed.
ValidateReportsFirstFailure ==
  moved.op = "validate" =>
    /\ moved.input = moved.before
    /\ state = moved.before
    /\ moved.verdict = validate_npc_move(moved.moves[1], moved.before, world)
    /\ \A s \in {moved.before}
                 \cup {[moved.before EXCEPT !.npc_locations = Pop(@, n)] : n \in NpcIds} :
         LET move == moved.moves[1]
             verdict == validate_npc_move(move, s, world)
             in_roster == move.npc_id \in DOMAIN world.npcs
             placed == move.npc_id \in DOMAIN s.npc_locations
             from_matches == placed /\ move.from_location = s.npc_locations[move.npc_id]
             to_known == move.to_location \in world.locations
             reachable == is_reachable(build_graph(world), move.from_location,
                                       move.to_location)
         IN /\ verdict.ok <=> (in_roster /\ placed /\ from_matches /\ to_known /\ reachable)
            /\ verdict.ok <=> verdict.reason = <<"ok">>
            /\ verdict.reason[1] =
                 (IF ~in_roster THEN "npc_id not found"
                  ELSE IF ~placed THEN "npc_id missing in npc_locations"
                  ELSE IF ~from_matches THEN "from_location mismatch (expected"
                  ELSE IF ~to_known THEN "to_location unknown"
                  ELSE IF ~reachable THEN "to_location unreachable"
                  ELSE "ok")

\* C16, witness: a validated move that fails two checks, its from_location and
\* its to_location, and is reported for the earlier one.
MismatchReportedBeforeUnknownTarget ==
  /\ moved.op = "validate"
  /\ ~moved.verdict.ok
  /\ moved.verdict.reason =
       <<"from_location mismatch (expected", state.npc_locations[moved.moves[1].npc_id]>>
  /\ moved.moves[1].to_location = NoLocation

\* C17.  is_reachable(build_graph(world), from, to) holds exactly when some
\* walk of existing locations leads from from to to, each step along a
\* connected_to entry of the location it leaves; a walk of no step is the
\* location itself, so from = to is reachable exactly when the location
\* exists.
ReachableIffDirectedWalk ==
  moved.op = "reach" =>
    LET start == moved.moves[1].from_location
        goal == moved.moves[1].to_location
        Walks == UNION {[1 .. n -> world.locations] : n \in 1 .. Cardinality(world.locations)}
        IsWalk(p) == /\ p[1] = start
                     /\ p[Len(p)] = goal
                     /\ \A i \in 1 .. Len(p) - 1 : p[i + 1] \in world.connected_to[p[i]]
    IN moved.verdict.ok <=> \E p \in Walks : IsWalk(p)

\* C17, witness: in the world town -> forest -> cave, cave is found reachable
\* from town, which has no road to it.
ReachedOverTwoRoads ==
  /\ moved.op = "reach"
  /\ world.connected_to = Roads({"forest"}, {"cave"}, {})
  /\ moved.moves[1].from_location = "town"
  /\ moved.moves[1].to_location = "cave"
  /\ moved.verdict.ok

\* C18.  Whenever the player's text contains a coercion or threat cue,
\* apply_agency_gate allows every move it is given, whatever the agency
\* score of the NPC: each move is in the allowed moves and no move_refused
\* event is emitted.
CoercionAllowsEveryMove ==
  moved.op = "gate" /\ IsCoerciveText(moved.player_text) =>
    /\ moved.allowed = moved.moves
    /\ moved.events = <<>>

\* what the NPC of the i-th gated move said this turn, as one text
GatedDialogue(i) ==
  IF moved.moves[i].npc_id \in DOMAIN moved.dialogue
  THEN UNION {moved.dialogue[moved.moves[i].npc_id][k] :
                k \in DOMAIN moved.dialogue[moved.moves[i].npc_id]}
  ELSE {}

\* the NPC of the i-th gated move explicitly accepts going to the destination
GatedAcceptsDestination(i) ==
  /\ NpcAcceptsInText(GatedDialogue(i))
  /\ TextContains(GatedDialogue(i), moved.moves[i].to_location)

GatedAllowed(i) == \E k \in DOMAIN moved.allowed : moved.allowed[k] = moved.moves[i]

\* first half of C19: an explicit acceptance of the destination without a
\* refusal cue allows the move, whatever the score
ExplicitAcceptAllows ==
  moved.op = "gate" =>
    \A i \in DOMAIN moved.moves :
      GatedAcceptsDestination(i) /\ ~NpcRefusesInText(GatedDialogue(i)) => GatedAllowed(i)

\* second half of C19: with a refusal cue in the same dialogue the move is
\* not allowed
RefusalCueWins ==
  moved.op = "gate" =>
    \A i \in DOMAIN moved.moves :
      GatedAcceptsDestination(i) /\ NpcRefusesInText(GatedDialogue(i)) => ~GatedAllowed(i)

\* C19.  In apply_agency_gate, a move whose NPC said this turn an explicit
\* acceptance cue referencing the destination and no refusal cue is allowed
\* regardless of score; if the same dialogue also contains a refusal cue,
\* refusal wins and the move is not allowed.
AcceptAllowsUnlessRefusalCue == ExplicitAcceptAllows /\ RefusalCueWins

\* the profiles that differ from npc only by a strictly higher obedience_level
\* and a strictly lower stubbornness
MoreCompliantThan(npc) ==
  {other \in AgencyProfiles :
     /\ other.obedience_level > npc.obedience_level
     /\ other.stubbornness < npc.stubbornness
     /\ other = [npc EXCEPT !.obedience_level = other.obedience_level,
                            !.stubbornness = other.stubbornness]}

\* C20.  For two NPCs identical except that one has strictly higher
\* obedience_level and strictly lower stubbornness, and the same move, state
\* and player_text, the clamped decision score of the more compliant NPC is
\* greater than or equal to the other's, and whenever the move of the less
\* compliant NPC is allowed the move of the more compliant one is allowed.
MoreCompliantScoresNoLower ==
  moved.op = "decide" /\ moved.moves[1].npc_id \in DOMAIN world.npcs =>
    \A other \in MoreCompliantThan(world.npcs[moved.moves[1].npc_id]) :
      LET move == moved.moves[1]
          compliant_world == [world EXCEPT !.npcs[move.npc_id] = other]
      IN /\ DecisionScore(move, moved.input, compliant_world, other) >= moved.score
         /\ moved.verdict.ok =>
              decide_npc_move(move, moved.input, compliant_world, moved.player_text).allowed

\* C20, witness: a decision that allows the move of an NPC of middling
\* obedience and stubbornness, which has more compliant counterparts; and the
\* score of the call was not clamped, so that the two levels weigh in it.
MiddlingAllowedHasMoreCompliant ==
  /\ moved.op = "decide"
  /\ moved.moves[1].npc_id = "npc_a"
  /\ moved.verdict.ok
  /\ moved.score < 1000
  /\ world.npcs["npc_a"].obedience_level = 5
  /\ world.npcs["npc_a"].stubbornness = 5
  /\ MoreCompliantThan(world.npcs["npc_a"]) # {}

AdHocIds(s, output) ==
  {output.quest_progress_updates[i].quest_id : i \in DOMAIN output.quest_progress_updates}
  \ (WorldQuestIds \cup DOMAIN s.quest_journal \cup DOMAIN output.quest_updates)

WithoutAdHocUpdates(s, output) ==
  [output EXCEPT
     !.quest_progress_updates =
        SelectSeq(@, LAMBDA update : update.quest_id \notin AdHocIds(s, output))]

\* C22.  apply_turn_output adds to the quest journal and to the quests map
\* only quest ids that the world defines, that the journal already holds, or
\* that the legacy quest_updates map of the output names; an entry of
\* quest_progress_updates naming any other quest id is ignored: the result
\* is the result of the output without that entry.
AdHocProgressUpdateIgnored ==
  \A input \in TurnInputs :
    LET output == input[1]
        r == apply_turn_output(state, output, input[2])
        allowed_ids == WorldQuestIds \cup DOMAIN state.quest_journal
                       \cup DOMAIN output.quest_updates
    IN r.ok =>
         /\ DOMAIN r.state.quest_journal \subseteq allowed_ids
         /\ DOMAIN r.state.quests \subseteq allowed_ids \cup DOMAIN state.quests
         /\ AdHocIds(state, output) # {} =>
              r.state = apply_turn_output(state, WithoutAdHocUpdates(state, output),
                                          input[2]).state

\* C22, witness: after a turn, the journal holds no entry of side_random and a
\* progress update naming it is among the turn outputs and changes nothing.
AdHocUpdateLeavesJournal ==
  /\ state.last_turn_id >= 1
  /\ UnknownId \notin DOMAIN state.quest_journal
  /\ \E input \in TurnInputs :
       /\ AdHocIds(state, input[1]) = {UnknownId}
       /\ apply_turn_output(state, input[1], input[2]).ok
       /\ apply_turn_output(state, input[1], input[2]).state.quest_journal
            = apply_turn_output(state, NoOutput, input[2]).state.quest_journal

\* C22 as stated: apply_turn_output never adds to the quest journal or to the
\* quests map a quest id that is neither defined by the world nor already in
\* the journal.
OnlyWorldQuestsEnterJournal ==
  \A input \in TurnInputs :
    LET r == apply_turn_output(state, input[1], input[2])
    IN r.ok =>
         /\ DOMAIN r.state.quest_journal \subseteq WorldQuestIds \cup DOMAIN state.quest_journal
         /\ DOMAIN r.state.quests
              \subseteq WorldQuestIds \cup DOMAIN state.quest_journal \cup DOMAIN state.quests

\* every journal entry of s of a quest that the world defines has the
\* required and reward items of the world's definition
WorldDefinitionsKept(s) ==
  \A q \in DOMAIN s.quest_journal \cap WorldQuestIds :
    /\ s.quest_journal[q].required_items = WorldQuestDefinitions[q].required_items
    /\ s.quest_journal[q].reward_items = WorldQuestDefinitions[q].reward_items

\* C23.  The state that an apply_turn_output, deliver_items_to_npc,
\* sync_quest_journal or resolve_main_trial call leaves has, in every journal
\* entry of a quest defined by the world, the required_items and reward_items
\* of the world's definition, whatever the quest updates of the turn
\* supplied and whatever the entry held before.
WorldDefinitionsImmutable == [][WorldDefinitionsKept(state')]_vars

\* C23, witness: a turn's update that supplied its own title, required and
\* reward items for the world's side quest was applied (its guidance and its
\* status are in the entry), and the entry has the world's items.
RedefinedQuestKeepsWorldItems ==
  /\ state.quest_journal[SideId].guidance = Text("llm_guidance", {"token"})
  /\ state.quest_journal[SideId].status = "failed"
  /\ state.quest_journal[SideId].required_items = WorldQuestDefinitions[SideId].required_items
  /\ state.quest_journal[SideId].reward_items = WorldQuestDefinitions[SideId].reward_items

\* the status b of a quest is the status a or a later one on the way
\* available -> active -> completed
StatusForward(a, b) ==
  \/ a = b
  \/ a = "available" /\ b \in {"active", "completed"}
  \/ a = "active" /\ b = "completed"

\* C24.  Across any sequence of operations the status of a quest only moves
\* forward along available -> active -> completed; a step to failed, and
\* the retry out of failed, happen only to the main quest and only by
\* resolve_main_trial; a side quest never becomes failed and a completed
\* quest never returns to active or available.
StatusOnlyMovesForward ==
  [][\A q \in DOMAIN state.quest_journal \cap DOMAIN state'.quest_journal :
       \/ StatusForward(state.quest_journal[q].status, state'.quest_journal[q].status)
       \/ /\ q = state.main_quest_id
          /\ "failed" \in {state.quest_journal[q].status, state'.quest_journal[q].status}
          /\ state.quest_journal[q].status # "completed"
          /\ \E passed \in BOOLEAN : state' = resolve_main_trial(state, passed)]_vars

\* C25.  Whenever deliver_items_to_npc transfers nothing (an empty or
\* non-positive handover, an item that is not in the inventory, an NPC that
\* is not at location_id, no eligible quest, a quest already completed), the
\* delivered map, the reward map and the notices it returns are empty and
\* the GameState it returns is the input state.
DeliveryOfNothingIsNoOp ==
  \A site \in DeliverySites, handover \in Handovers :
    LET r == deliver_items_to_npc(state, site[1], site[2], handover)
    IN DOMAIN r.delivered = {} =>
         /\ r.rewards = EmptyMap
         /\ r.notices = <<>>
         /\ r.state = state

\* C26.  Every GameState returned by run_turn, apply_turn_output,
\* deliver_items_to_npc, sync_quest_journal, resolve_main_trial or
\* apply_validated_moves has npc_locations defined for exactly the NPC ids of
\* the world, every NPC and the player at a location of the world, and a
\* main_quest_id that, if set, is a key of the quest journal.
ReturnedStatesValid ==
  /\ DOMAIN state.npc_locations = DOMAIN world.npcs
  /\ \A n \in DOMAIN state.npc_locations : state.npc_locations[n] \in world.locations
  /\ state.player_location \in world.locations
  /\ (state.main_quest_id # NoValue => state.main_quest_id \in DOMAIN state.quest_journal)

\* turns and moves have taken the player and an NPC away from where they started
PlayerAndNpcMoved ==
  /\ state.last_turn_id > 0
  /\ state.player_location # StartingLocation
  /\ state.npc_locations["npc_a"] # NpcStart["npc_a"]

\* C27.  In the state returned by run_turn, the guidance of the main quest,
\* when the quest is active and its required items are ready, names the
\* location at which the giver NPC is in that returned state: the NPC moves
\* the turn accepted are committed before the quest sync is computed.
ReturnedGuidanceNamesGiverLocation ==
  LET main == state.quest_journal[MainId] IN
  (/\ state.last_turn_id > 0
   /\ main.status = "active"
   /\ main.guidance.kind = "main_items_ready")
  => main.guidance.where = WorldLocationName(state.npc_locations[main.giver_npc_id])

\* C28.  In every context pack returned by get_forced_context_pack, document
\* ids are unique within always_include, unique within retrieved, and no
\* document id appears in both tiers.
UniqueIds(docs) == \A i, j \in DOMAIN docs : docs[i].id = docs[j].id => i = j

ContextPackIdsUnique ==
  turn.pc = "context" =>
    /\ UniqueIds(turn.pack.always_include)
    /\ UniqueIds(turn.pack.retrieved)
    /\ DocIdsOf(turn.pack.always_include) \cap DocIdsOf(turn.pack.retrieved) = {}

\* a pack whose listed documents repeat an id, whose store answers held a
\* listed id, and that still retrieved a document
PackDroppedRepeatedIds ==
  /\ turn.pc = "context"
  /\ ~UniqueIds(turn.pack.listed)
  /\ DocIdsOf(turn.pack.found) \cap DocIdsOf(turn.pack.listed) # {}
  /\ turn.pack.retrieved # <<>>

\* C29.  validate_session_id accepts a string if and only if it is non-empty
\* and consists only of ASCII letters, digits, '_' and '-'; every other
\* string is rejected with an error.
SessionIdAcceptedIffSafe ==
  turn.pc = "session_id" =>
    (turn.raised = "ok"
       <=> /\ turn.session_id # <<>>
           /\ \A i \in DOMAIN turn.session_id : turn.session_id[i] \in SafeChars)

\* C30.  In a medieval world the terms the anachronism guard reports are
\* exactly the banned terms that occur in the narration or the dialogue of the
\* turn output minus the banned terms that occur in what the player said this
\* turn; the guard asks for a repair only when that set is not empty, and
\* never in a world that is not medieval.
BannedTermsIn(texts) ==
  {term \in DEFAULT_ANACHRONISM_TERMS : \E text \in texts : TextContains(text, term)}

FirstMentionedTerms ==
  IF world.tech_level = "medieval"
  THEN BannedTermsIn(TextsOf(turn.output)) \ BannedTermsIn({{turn.player_text}})
  ELSE {}

GuardReportsFirstMentions ==
  [][turn.pc = "anachronism" =>
       /\ FirstMentions(world, turn.player_text, turn.output) = FirstMentionedTerms
       /\ (turn'.rewrites["anachronism"] = turn.rewrites["anachronism"] + 1
             <=> FirstMentionedTerms # {})
       /\ (FirstMentionedTerms = {} => turn'.output = turn.output)]_vars

\* the guard has run on an output whose dialogue held a banned term the player
\* did not say, next to a narration whose banned term the player did say
DialogueTermReported ==
  /\ turn.pc = "dialogue"
  /\ turn.player_text = "bring wifi"
  /\ world.tech_level = "medieval"
  /\ turn.rewrites["anachronism"] = 1

\* the guard has run in a modern world on an output that names a banned term
ModernWorldUnguarded ==
  /\ turn.pc = "dialogue"
  /\ world.tech_level = "modern"
  /\ BannedTermsIn(TextsOf(turn.output)) # {}
  /\ turn.rewrites["anachronism"] = 0

\* C31.  When the agency gate refuses none of a turn's moves, run_turn ends
\* with the NPC locations and the rejection events of apply_validated_moves
\* on the same move list: a later move of an NPC is validated against the
\* location the earlier accepted move produced.
TurnMovesAsBatch ==
  \A player_text \in PlayerTexts, npc_id \in NpcIds, reply \in MoveTurnReplies :
    LET r == run_turn(state, world, snapshot, turn_log, player_text, npc_id, reply, "ok")
        record == r.turn_log[Len(r.turn_log)]
        batch == apply_validated_moves(record.npc_moves, state, world)
    IN (~r.failed /\ record.move_refusals = <<>>)
       => /\ r.state.npc_locations = batch.state.npc_locations
          /\ record.move_rejections = batch.events

\* C32.  After a completed run_turn every NPC is where it was before the
\* turn or at a location that can be reached from there in the world graph,
\* also when a coercive player text rewrites a stale from_location or injects
\* a forced move, and when one turn proposes several moves of one NPC.
NpcsMoveAlongRoads ==
  [][\A n \in NpcIds :
       \/ state'.npc_locations[n] = state.npc_locations[n]
       \/ is_reachable(build_graph(world), state.npc_locations[n],
                       state'.npc_locations[n])]_vars

\* a coercive turn whose move named a stale from_location has taken npc_a to
\* town
StaleMoveCommitted ==
  /\ Len(turn_log) = 1
  /\ state.last_turn_id = 1
  /\ \E i \in DOMAIN turn_log[1].npc_moves :
       turn_log[1].npc_moves[i] = NPCMove("npc_a", "town", "town")
  /\ state.npc_locations["npc_a"] = "town"

\* a coercive turn has taken npc_a to town by a move it injected next to the
\* move the output proposed for npc_b
ForcedMoveCommitted ==
  /\ Len(turn_log) = 1
  /\ state.last_turn_id = 1
  /\ turn_log[1].npc_moves = <<NPCMove("npc_b", "town", "forest"),
                               NPCMove("npc_a", "forest", "town")>>
  /\ state.npc_locations["npc_a"] = "town"

\* C33.  In the audit record of a completed run_turn every proposed move,
\* an injected one included, is exactly one of applied, rejected by the
\* validator and refused by the agency gate: the record holds one rejection
\* event for each rejected move and one refusal event for each refused move,
\* and the three counts add up to the number of proposed moves.
EventsNameMoves(events, moves, type) ==
  /\ Len(events) = Len(moves)
  /\ \A k \in DOMAIN events :
       /\ events[k].type = type
       /\ events[k].npc_id = moves[k].npc_id
       /\ events[k].to_location = moves[k].to_location

\* the moves of the class, in the order of the proposal
MovesOfClass(npc_moves, class, c) ==
  LET picked == SelectSeq([i \in DOMAIN npc_moves |-> i], LAMBDA i : class[i] = c)
  IN [k \in DOMAIN picked |-> npc_moves[picked[k]]]

\* the last applied move of each NPC is where the NPC is now
AppliedMovesWritten(applied, npc_locations) ==
  \A k \in DOMAIN applied :
    \/ \E later \in DOMAIN applied : later > k /\ applied[later].npc_id = applied[k].npc_id
    \/ /\ applied[k].npc_id \in DOMAIN npc_locations
       /\ npc_locations[applied[k].npc_id] = applied[k].to_location

MovesClassifiedOnce ==
  (Len(turn_log) = 1 /\ state.last_turn_id = 1) =>
    LET record == turn_log[1] IN
    /\ record.move_rejected_count = Len(record.move_rejections)
    /\ record.move_refused_count = Len(record.move_refusals)
    /\ record.move_applied_count + record.move_rejected_count + record.move_refused_count
         = Len(record.npc_moves)
    /\ \E class \in [DOMAIN record.npc_moves -> {"applied", "rejected", "refused"}] :
         /\ EventsNameMoves(record.move_rejections,
                            MovesOfClass(record.npc_moves, class, "rejected"), "move_rejected")
         /\ EventsNameMoves(record.move_refusals,
                            MovesOfClass(record.npc_moves, class, "refused"), "move_refused")
         /\ record.move_applied_count = Len(MovesOfClass(record.npc_moves, class, "applied"))
         /\ AppliedMovesWritten(MovesOfClass(record.npc_moves, class, "applied"),
                                state.npc_locations)

\* a completed turn with a forced move next to the proposed one, one of the
\* two refused by the gate and the other applied or rejected
ForcedTurnWithRefusal ==
  /\ Len(turn_log) = 1
  /\ state.last_turn_id = 1
  /\ Len(turn_log[1].npc_moves) = 2
  /\ turn_log[1].move_refused_count = 1

\* a completed turn with one move applied and one rejected
TurnWithAppliedAndRejected ==
  /\ Len(turn_log) = 1
  /\ state.last_turn_id = 1
  /\ turn_log[1].move_applied_count = 1
  /\ turn_log[1].move_rejected_count = 1

\* C34.  For every refused move of a known NPC the refusal reason names the
\* condition of highest priority among those recorded in the decision's tags:
\* role before risk before disposition before stubbornness, and the generic
\* unwillingness when none of the four is recorded.
ReasonByPriority(tags) ==
  IF InTags(tags, "role") THEN "Refused: guarding their post"
  ELSE IF InTags(tags, "risk") THEN "Refused: too risky"
  ELSE IF InTags(tags, "disposition") THEN "Refused: doesn't trust the player"
  ELSE IF InTags(tags, "stubbornness") THEN "Refused: too stubborn"
  ELSE "Refused: unwilling to comply"

ReasonNamesFirstTag ==
  (/\ moved.op = "decide"
   /\ moved.moves[1].npc_id \in DOMAIN world.npcs
   /\ ~moved.verdict.ok)
  => moved.verdict.reason = <<ReasonByPriority(moved.events)>>

\* C35.  One generate_json call makes at most two requests to the model:
\* its request and, only when the answer does not parse as a JSON object, one
\* repair request; a text that does not parse gets exactly one repair request,
\* and when the repaired text does not parse either the call raises
\* ValueError, having made no third request.
JsonRequestsAtMostTwo ==
  turn.pc = "generate_json" =>
    LET Answered(k) == /\ RequestChat(turn.failures[k]).answered
                       /\ Len(turn.outputs) >= k
        NotAnObject(text) == text \in {"array", "null", "garbage"}
        Unparsed(text) == text \in {"null", "garbage"}
    IN /\ turn.call.requests \in {1, 2}
       /\ turn.call.requests = 2 => Answered(1) /\ NotAnObject(turn.outputs[1])
       /\ (Answered(1) /\ Unparsed(turn.outputs[1])) => turn.call.requests = 2
       /\ (Answered(1) /\ Unparsed(turn.outputs[1]) /\ Answered(2) /\ Unparsed(turn.outputs[2]))
            => turn.call.raised = "ValueError" /\ turn.call.requests = 2
       /\ turn.call.raised = "ValueError"
            => Answered(2) /\ Unparsed(turn.outputs[1]) /\ Unparsed(turn.outputs[2])

\* a call whose request and whose repair were both answered with text that
\* does not parse
RepairFailedToo ==
  /\ turn.pc = "generate_json"
  /\ turn.outputs = <<"garbage", "garbage">>
  /\ turn.call.raised = "ValueError"
  /\ turn.call.requests = 2

\* a call that returned the object of the repaired text
RepairedOnce ==
  /\ turn.pc = "generate_json"
  /\ turn.outputs = <<"garbage", "object">>
  /\ turn.call.raised = "none"
  /\ turn.call.result = "dict"
  /\ turn.call.requests = 2

\* C36.  Ranked retrieval returns at most top_k documents and none twice; it
\* asks the NPC-scoped filter first (when the turn has an NPC), then the
\* location-scoped one, then the session-wide one, and a later one only while
\* fewer than top_k documents are collected; the documents a tier contributes
\* match its filter, are in rank order and stand behind those of the tiers
\* before it.
RetrievalTiered ==
  turn.pc = "retrieve" =>
    LET tiers == IF turn.npc_id # NoValue
                 THEN TierFilters("sess", turn.npc_id, "town")
                 ELSE Tail(TierFilters("sess", turn.npc_id, "town"))
        CountBefore(k) == IF k = 1 THEN 0 ELSE turn.counts[k - 1]
        Contributed(k) == SubSeq(turn.results, CountBefore(k) + 1, turn.counts[k])
    IN /\ Len(turn.results) <= turn.top_k
       /\ UniqueIds(turn.results)
       /\ Len(turn.counts) <= Len(tiers)
       /\ \A k \in DOMAIN turn.counts : CountBefore(k) < turn.top_k
       /\ \A k \in DOMAIN turn.counts : CountBefore(k) <= turn.counts[k]
       /\ Len(turn.counts) < Len(tiers) => Len(turn.results) >= turn.top_k
       /\ Len(turn.results) = (IF turn.counts = <<>> THEN 0 ELSE turn.counts[Len(turn.counts)])
       /\ \A k \in DOMAIN turn.counts :
            /\ \A i \in DOMAIN Contributed(k) :
                 /\ MatchesFilters(Contributed(k)[i], tiers[k])
                 /\ Contributed(k)[i].score > 0
                 /\ \E j \in DOMAIN turn.store : turn.store[j] = Contributed(k)[i]
            /\ \A i, j \in DOMAIN Contributed(k) :
                 i < j => ~RankedBefore(Contributed(k)[j], Contributed(k)[i])

\* the NPC's tier gave one document and the location's tier the second, the
\* NPC's document being among the location's as well
LaterTierFilledUp ==
  /\ turn.pc = "retrieve"
  /\ turn.npc_id = "npc_a"
  /\ turn.top_k = 2
  /\ turn.counts = <<1, 2>>
  /\ turn.results[1].location_id = "town"
  /\ turn.results[2].npc_id = "npc_b"

RiskyDestination(to_location) ==
  \E term \in RiskyTerms : CueContains(to_location, term)

TagsOnlyFromFour(tags) ==
  \A i \in DOMAIN tags : tags[i] \in {"stubbornness", "risk", "role", "disposition"}

TagsOnlyWhenApplicable(tags, npc, move, npc_locations) ==
  /\ InTags(tags, "stubbornness") => npc.stubbornness >= 7
  /\ InTags(tags, "disposition") => npc.disposition_to_player <= -2
  /\ InTags(tags, "risk") => RiskyDestination(move.to_location) /\ npc.risk_tolerance < 7
  /\ InTags(tags, "role") => /\ Anchored(npc, move.npc_id)
                             /\ move.to_location # npc_locations[move.npc_id]

RiskOrRoleTagged(tags, npc, move) ==
  (/\ npc.risk_tolerance <= 3 \/ Anchored(npc, move.npc_id)
   /\ RiskyDestination(move.to_location))
  => InTags(tags, "risk") \/ InTags(tags, "role")

RefusalTagsFromConditions ==
  (/\ moved.op = "decide"
   /\ moved.moves[1].npc_id \in DOMAIN world.npcs
   /\ ~moved.verdict.ok)
  => LET npc == world.npcs[moved.moves[1].npc_id]
     IN /\ TagsOnlyFromFour(moved.events)
        /\ TagsOnlyWhenApplicable(moved.events, npc, moved.moves[1], moved.input.npc_locations)
        /\ RiskOrRoleTagged(moved.events, npc, moved.moves[1])

====
